---- MODULE Spec2Model ----
(***************************************************************************)
(* State-machine model of the OAuth 2.1 authorization server of mindflow   *)
(* (backend/app/oauth): client registry, pending-authorization (CSRF)      *)
(* cache, authorization-code store, refresh-token store, the authorize     *)
(* endpoint (GET/POST) and the token endpoint.                             *)
(*                                                                         *)
(* Time is counted in minutes.  Random identifiers (client ids, codes,     *)
(* CSRF tokens, refresh tokens) are modelled as fresh indices: the n-th    *)
(* value drawn is n, and a request may present any index, also one that    *)
(* has not been issued (an unknown or forged value).                       *)
(***************************************************************************)
EXTENDS Integers, Sequences, FiniteSets, TLC

(***************************************************************************)
(* Bounds of the model.                                                    *)
(***************************************************************************)
NumProcs == 2        \* concurrent request handlers (workers / coroutines)
MaxCodes == 2        \* authorization codes ever created
MaxCsrf == 1         \* pending authorizations ever created
MaxRefresh == 2      \* refresh tokens ever created
MaxClock == 10       \* last instant of the clock, in minutes
TickMinutes == 10     \* granularity of the clock, in minutes
MaxKeys == 3         \* key pairs ever generated
MaxResetTokens == 2  \* password reset tokens ever created
MaxSessions == 3     \* first-party refresh tokens ever created

(***************************************************************************)
(* Program constants.                                                      *)
(***************************************************************************)
CODE_EXPIRY_MINUTES == 10        \* crud.py: timedelta(minutes=10)
TOKEN_EXPIRY_SECONDS == 600      \* csrf.py: CSRFTokenStorage.TOKEN_EXPIRY_SECONDS
REFRESH_EXPIRY_DAYS == 90        \* token.py: timedelta(days=90)
EXPIRES_IN == 3600               \* token.py: expires_in=3600
ACCESS_EXPIRY_MINUTES == 60      \* jwt.py: expires_delta = timedelta(hours=1)
Issuer == "https://mindflow.example.com"   \* jwt.py: OAUTH_ISSUER default
Audience == "mindflow-api"                 \* jwt.py: aud
CHALLENGE_MIN_LENGTH == 43       \* schemas.py: code_challenge min_length
CHALLENGE_MAX_LENGTH == 128      \* schemas.py: code_challenge max_length

Procs == 1..NumProcs

(***************************************************************************)
(* Input alphabets.  "" stands for a parameter that is missing or empty    *)
(* (both are falsy in the handlers), 0 for a missing index or user.        *)
(***************************************************************************)
ClientIdPool == <<"c1", "c2">>           \* generate_client_id(), in order of issue
ClientIds == {ClientIdPool[i] : i \in 1..Len(ClientIdPool)}
ClientSecretOf == [c \in ClientIds |-> IF c = "c1" THEN "secret-1" ELSE "secret-2"]
Secrets == {ClientSecretOf[c] : c \in ClientIds}

CallbackUri == "https://example.com/callback"
CallbackSlashUri == "https://example.com/callback/"
Uris == {CallbackUri, CallbackSlashUri}

Users == {1, 2}
NoUser == 0

ScopeRead == "tasks:read"
ScopeReadWrite == "tasks:read tasks:write"
ScopeReadAdmin == "tasks:read admin"

\* str.split() on the scope strings of the model
SplitScope(s) ==
    CASE s = ScopeRead -> {"tasks:read"}
      [] s = ScopeReadWrite -> {"tasks:read", "tasks:write"}
      [] s = ScopeReadAdmin -> {"tasks:read", "admin"}
      [] OTHER -> {}

(***************************************************************************)
(* PKCE (token.py verify_pkce).  Strings that are hashed or compared       *)
(* character-wise are given with their characters; SHA-256 is the table    *)
(* of hashlib's digests of the verifiers of the model.                     *)
(***************************************************************************)
Verifier1 == "dBjftJeZ4CVP-mB92K27uhbUJU1p1r_wW1gFWFOEjXk"
Verifier2 == "test_verifier_1234567890123456789012345678901234567890"
VerifierNonAscii == "v<e-acute>rifier"     \* stands for a verifier with a non-ASCII character
VerifierEmpty == ""

Challenge1 == "E9Melhoa2OwvFrEMTJguCHaoeK1t8URWbuGJSstw-cM"
ChallengeOfEmpty == "47DEQpj8HBSa-_TImW-5JCeuQeRkm5NMpJWZG3hSuFU"
ChallengeShort == "short"

Chars(s) ==
    CASE s = Challenge1 ->
           <<"E", "9", "M", "e", "l", "h", "o", "a", "2", "O", "w", "v", "F", "r",
             "E", "M", "T", "J", "g", "u", "C", "H", "a", "o", "e", "K", "1", "t",
             "8", "U", "R", "W", "b", "u", "G", "J", "S", "s", "t", "w", "-", "c", "M">>
      [] s = ChallengeOfEmpty ->
           <<"4", "7", "D", "E", "Q", "p", "j", "8", "H", "B", "S", "a", "-", "_",
             "T", "I", "m", "W", "-", "5", "J", "C", "e", "u", "Q", "e", "R", "k",
             "m", "5", "N", "M", "p", "J", "W", "Z", "G", "3", "h", "S", "u", "F", "U">>
      [] s = ChallengeShort -> <<"s", "h", "o", "r", "t">>
      [] OTHER -> <<>>

IsAscii(s) == s # VerifierNonAscii

\* hashlib.sha256(v.encode("ascii")).digest(), as 32 byte values
Sha256(v) ==
    CASE v = Verifier1 ->
           <<19, 211, 30, 150, 26, 26, 216, 236, 47, 22, 177, 12, 76, 152, 46, 8,
             118, 168, 120, 173, 109, 241, 68, 86, 110, 225, 137, 74, 203, 112, 249, 195>>
      [] v = Verifier2 ->
           <<177, 80, 21, 237, 96, 231, 138, 69, 162, 82, 96, 183, 13, 4, 149, 2,
             156, 171, 169, 240, 93, 148, 64, 232, 62, 3, 155, 225, 242, 173, 222, 209>>
      [] v = VerifierEmpty ->
           <<227, 176, 196, 66, 152, 252, 28, 20, 154, 251, 244, 200, 153, 111, 185, 36,
             39, 174, 65, 228, 100, 155, 147, 76, 164, 149, 153, 27, 120, 82, 184, 85>>

B64UrlAlphabet ==
    <<"A", "B", "C", "D", "E", "F", "G", "H", "I", "J", "K", "L", "M", "N", "O", "P",
      "Q", "R", "S", "T", "U", "V", "W", "X", "Y", "Z", "a", "b", "c", "d", "e", "f",
      "g", "h", "i", "j", "k", "l", "m", "n", "o", "p", "q", "r", "s", "t", "u", "v",
      "w", "x", "y", "z", "0", "1", "2", "3", "4", "5", "6", "7", "8", "9", "-", "_">>

\* one group of base64: n real bytes (1..3) of the three in b give 4 characters
B64Group(b, n) ==
    LET w == b[1] * 65536 + b[2] * 256 + b[3]
        c1 == B64UrlAlphabet[((w \div 262144) % 64) + 1]
        c2 == B64UrlAlphabet[((w \div 4096) % 64) + 1]
        c3 == B64UrlAlphabet[((w \div 64) % 64) + 1]
        c4 == B64UrlAlphabet[(w % 64) + 1]
    IN <<c1, c2, IF n >= 2 THEN c3 ELSE "=", IF n >= 3 THEN c4 ELSE "=">>

RECURSIVE UrlsafeB64Encode(_)
\* base64.urlsafe_b64encode, padding included
UrlsafeB64Encode(bytes) ==
    IF Len(bytes) = 0 THEN <<>>
    ELSE IF Len(bytes) >= 3
         THEN B64Group(SubSeq(bytes, 1, 3), 3)
                \o UrlsafeB64Encode(SubSeq(bytes, 4, Len(bytes)))
         ELSE B64Group(bytes \o [i \in 1..(3 - Len(bytes)) |-> 0], Len(bytes))

RECURSIVE RStrip(_, _)
\* str.rstrip(ch)
RStrip(s, ch) ==
    IF Len(s) > 0 /\ s[Len(s)] = ch THEN RStrip(SubSeq(s, 1, Len(s) - 1), ch) ELSE s

ComputedChallengePadded(code_verifier) == UrlsafeB64Encode(Sha256(code_verifier))

\* token.py:39-40
ComputedChallenge(code_verifier) ==
    RStrip(UrlsafeB64Encode(Sha256(code_verifier)), "=")

\* a variant that compares under any method it does not know as under plain
verify_pkce_unknown_method_as_plain(code_verifier, code_challenge, code_challenge_method) ==
    IF code_challenge_method = "S256"
    THEN ComputedChallenge(code_verifier) = Chars(code_challenge)
    ELSE code_verifier = code_challenge

\* token.py:24-47; the caller has made sure the verifier is ASCII and non-empty
verify_pkce(code_verifier, code_challenge, code_challenge_method) ==
    IF code_challenge_method = "S256"
    THEN ComputedChallenge(code_verifier) = Chars(code_challenge)
    ELSE IF code_challenge_method = "plain"
         THEN code_verifier = code_challenge
         ELSE FALSE

(***************************************************************************)
(* State.                                                                  *)
(***************************************************************************)
VARIABLES
    clients,    \* oauth_clients table: the rows, in order of registration
    keys,       \* key files: [private, public], 0 = file absent, n = n-th key pair
    csrf,       \* Redis "csrf:<token>" hashes: token index -> entry
    codes,      \* oauth_authorization_codes table: code index -> row
    rtokens,    \* oauth_refresh_tokens table: token index -> row
    clock,      \* datetime.now(UTC), in minutes
    pc,         \* position of each request handler
    loc,        \* local variables of each request handler
    out,        \* the last HTTP response sent, with the credentials it answered
    origin,     \* history: origin[k] is the CSRF token whose consent created code k
    redeems,    \* history: redeems[k] counts the token responses (200) for code k
    password_hash,   \* users table: user id -> password_hash
    reset_tokens,    \* password_reset_tokens table: the rows, in order of creation
    refresh_tokens   \* refresh_tokens table (first-party sessions): the rows, in order

\* the tables of the first-party login (app/db/crud.py, app/api/auth.py)
first_party == <<password_hash, reset_tokens, refresh_tokens>>

vars == <<clients, keys, csrf, codes, rtokens, clock, pc, loc, out, origin, redeems, password_hash, reset_tokens, refresh_tokens>>

NoLoc == [none |-> TRUE]
NoOut == [ep |-> "none"]
NoTtl == -1
NoData == [client_id |-> "", redirect_uri |-> "", scope |-> "", state |-> "",
           code_challenge |-> "", code_challenge_method |-> "", user_id |-> 0]
\* a key of the cache that was deleted or has expired
Gone == [data |-> NoData, expire_at |-> NoTtl, live |-> FALSE]
NoAccessToken ==
    [sub |-> 0, client_id |-> "", scope |-> "", iss |-> "", aud |-> "", exp |-> 0,
     iat |-> 0, key |-> 0]

InitialPassword == "OldPassword123"

\* security.py:11-25: bcrypt.hashpw; the salt plays no part in what checkpw answers
hash_password(password) == [bcrypt |-> password]

\* security.py:28-47: bcrypt.checkpw
verify_password(plain_password, hashed_password) ==
    hashed_password = hash_password(plain_password)

\* the first-party tables at start: every user has a password, no token exists
InitFirstParty ==
    /\ password_hash = [u \in Users |-> hash_password(InitialPassword)]
    /\ reset_tokens = <<>>
    /\ refresh_tokens = <<>>

Init ==
    /\ InitFirstParty
    /\ clients = <<>>
    /\ keys = [private |-> 0, public |-> 0]
    /\ csrf = <<>>
    /\ codes = <<>>
    /\ rtokens = <<>>
    /\ clock = 0
    /\ pc = [p \in Procs |-> "idle"]
    /\ loc = [p \in Procs |-> NoLoc]
    /\ out = NoOut
    /\ origin = <<>>
    /\ redeems = <<>>

InFlight(label) == Cardinality({p \in Procs : pc[p] = label})

(***************************************************************************)
(* Clock.                                                                  *)
(***************************************************************************)
\* Time passes; Redis drops the keys whose TTL has run out.
Tick ==
    /\ clock + TickMinutes <= MaxClock
    /\ clock' = clock + TickMinutes
    /\ csrf' = [t \in 1..Len(csrf) |->
                   IF csrf[t].live /\ csrf[t].expire_at # NoTtl /\ csrf[t].expire_at <= clock'
                   THEN Gone
                   ELSE csrf[t]]
    /\ UNCHANGED <<clients, keys, codes, rtokens, pc, loc, out, origin, redeems>>
    /\ UNCHANGED first_party

\* A long time passes, once: the lifetime of a refresh token, for some refresh
\* token to outlive.
TickRefreshLifetime ==
    /\ clock <= MaxClock
    /\ rtokens # <<>>
    /\ clock' = clock + REFRESH_EXPIRY_DAYS * 24 * 60
    /\ csrf' = [t \in 1..Len(csrf) |->
                   IF csrf[t].live /\ csrf[t].expire_at # NoTtl /\ csrf[t].expire_at <= clock'
                   THEN Gone
                   ELSE csrf[t]]
    /\ UNCHANGED <<clients, keys, codes, rtokens, pc, loc, out, origin, redeems>>
    /\ UNCHANGED first_party

(***************************************************************************)
(* Key material (jwks.py).                                                 *)
(***************************************************************************)
\* a variant that finds the key files missing whatever is on disk
KeyFilesMissingAlways == TRUE

\* jwks.py:50: not PRIVATE_KEY_PATH.exists() or not PUBLIC_KEY_PATH.exists()
KeyFilesMissing == keys.private = 0 \/ keys.public = 0

\* the key pairs some ensure_keys_exist call has generated and is writing
PairsBeingWritten ==
    {loc[p].pair : p \in {q \in Procs : pc[q] \in {"write_private", "write_public"}}}

\* jwks.py:22-43: generate_rsa_keypair returns a pair never generated before
generate_rsa_keypair ==
    1 + CHOOSE n \in {keys.private, keys.public} \cup PairsBeingWritten :
            \A m \in {keys.private, keys.public} \cup PairsBeingWritten : m <= n

\* jwks.py:46-61, run without interruption
EnsureKeysExist ==
    /\ KeyFilesMissing
    /\ generate_rsa_keypair <= MaxKeys
    /\ keys' = [private |-> generate_rsa_keypair, public |-> generate_rsa_keypair]
    /\ UNCHANGED <<clients, csrf, codes, rtokens, clock, pc, loc, out, origin, redeems>>
    /\ UNCHANGED first_party

\* a response of the key material manager, the token issuer or a verifier:
\* key is the public key returned or used, now the time of the call
KeyOut(ep, ok, detail, token, key) ==
    [ep |-> ep, ok |-> ok, detail |-> detail, token |-> token, key |-> key,
     now |-> clock]

\* jwt.decode of PyJWT: the signature against the public key, then exp, then
\* the issuer if one is configured, then the audience ("": the claims)
jwt_decode(token, public, now, check_iss) ==
    IF public = 0 \/ token.key # public THEN "InvalidSignatureError"
    ELSE IF token.exp <= now THEN "ExpiredSignatureError"
    ELSE IF check_iss /\ token.iss # Issuer THEN "InvalidIssuerError"
    ELSE IF token.aud # Audience THEN "InvalidAudienceError"
    ELSE ""

\* a variant of the verifier of jwt.py that is given the issuer to expect
decode_access_token_with_issuer(token, public, now) ==
    jwt_decode(token, public, now, TRUE)

\* jwt.py:109-118: algorithms RS256, audience mindflow-api, no issuer
decode_access_token(token, public, now) ==
    jwt_decode(token, public, now, FALSE)

\* mcp_server/auth.py:57-85: audience and issuer of the configuration
verify_bearer_token(token, public, now) ==
    jwt_decode(token, public, now, TRUE)

\* what a call answers once the public key file is there: ensure_keys_exist
\* returns, jwks returns the key (jwks.py:101-111), decode_access_token
\* verifies the token against it (jwt.py:104-120)
KeyCallOut(call, token, public) ==
    IF call = "decode_access_token"
    THEN KeyOut(call, decode_access_token(token, public, clock) = "",
                decode_access_token(token, public, clock), token, public)
    ELSE KeyOut(call, TRUE, "", NoAccessToken, public)

KeyCalls == {"ensure_keys_exist", "jwks", "decode_access_token"}

OtherIssuer == "https://other.example.com"
OtherAudience == "other-api"

\* the tokens presented to the verifiers: signed by any key pair (0: by none
\* of them), for either issuer and audience, expiring at the first tick or
\* after the lifetime of an access token
PresentedTokens ==
    [sub : {1}, client_id : {"c1"}, scope : {ScopeRead},
     iss : {Issuer, OtherIssuer}, aud : {Audience, OtherAudience},
     exp : {TickMinutes, ACCESS_EXPIRY_MINUTES}, iat : {0}, key : 0..MaxKeys]

\* jwks.py:46-51 as the first step of ensure_keys_exist, of load_public_key
\* (jwks.py:64-72) under jwks, or under decode_access_token: the test for the
\* files and the generation of a pair; with the files there, the whole call
KeyCall(p, call, token) ==
    /\ pc[p] = "idle"
    /\ call = "decode_access_token" <=> token # NoAccessToken
    /\ IF KeyFilesMissing
       THEN /\ generate_rsa_keypair <= MaxKeys
            /\ pc' = [pc EXCEPT ![p] = "write_private"]
            /\ loc' = [loc EXCEPT ![p] = [pair |-> generate_rsa_keypair,
                                          call |-> call, token |-> token]]
            /\ UNCHANGED out
       ELSE /\ out' = KeyCallOut(call, token, keys.public)
            /\ UNCHANGED <<pc, loc>>
    /\ UNCHANGED <<clients, keys, csrf, codes, rtokens, clock, origin, redeems>>
    /\ UNCHANGED first_party

\* jwks.py:53-54: the private key file is written
WritePrivateKey(p) ==
    /\ pc[p] = "write_private"
    /\ keys' = [keys EXCEPT !.private = loc[p].pair]
    /\ pc' = [pc EXCEPT ![p] = "write_public"]
    /\ UNCHANGED <<clients, csrf, codes, rtokens, clock, loc, out, origin, redeems>>
    /\ UNCHANGED first_party

\* jwks.py:56-57: the public key file is written; the call then goes on with
\* the public key it reads from the file
WritePublicKey(p) ==
    /\ pc[p] = "write_public"
    /\ keys' = [keys EXCEPT !.public = loc[p].pair]
    /\ out' = KeyCallOut(loc[p].call, loc[p].token, loc[p].pair)
    /\ pc' = [pc EXCEPT ![p] = "idle"]
    /\ loc' = [loc EXCEPT ![p] = NoLoc]
    /\ UNCHANGED <<clients, csrf, codes, rtokens, clock, origin, redeems>>
    /\ UNCHANGED first_party

\* jwt.py:19-33: load_private_key raises FileNotFoundError when the file is absent
PrivateKeyExists == keys.private # 0

\* a variant that signs a token for the right user and client without scope
create_access_token_without_scope(user_id, client_id, scope) ==
    [sub |-> user_id, client_id |-> client_id, scope |-> "",
     iss |-> Issuer, aud |-> Audience,
     exp |-> clock + ACCESS_EXPIRY_MINUTES, iat |-> clock,
     key |-> keys.private]

\* jwt.py:36-87: the claims, and in key the key pair whose private half signed
\* them (jti, a random value, is left out)
create_access_token(user_id, client_id, scope) ==
    [sub |-> user_id, client_id |-> client_id, scope |-> scope,
     iss |-> Issuer, aud |-> Audience,
     exp |-> clock + ACCESS_EXPIRY_MINUTES, iat |-> clock,
     key |-> keys.private]

\* jwt.py:36-87 called on its own: FileNotFoundError without a private key
IssueAccessToken(user_id, client_id, scope) ==
    /\ out' = IF PrivateKeyExists
              THEN KeyOut("create_access_token", TRUE, "",
                          create_access_token(user_id, client_id, scope), keys.private)
              ELSE KeyOut("create_access_token", FALSE, "FileNotFoundError",
                          NoAccessToken, 0)
    /\ UNCHANGED <<clients, keys, csrf, codes, rtokens, clock, pc, loc, origin, redeems>>
    /\ UNCHANGED first_party

\* mcp_server/auth.py:20-85: the public key is read from its file
\* (config.get_public_key raises FileNotFoundError without it), never generated
VerifyBearerToken(token) ==
    /\ out' = IF keys.public = 0
              THEN KeyOut("verify_bearer_token", FALSE, "FileNotFoundError", token, 0)
              ELSE KeyOut("verify_bearer_token",
                          verify_bearer_token(token, keys.public, clock) = "",
                          verify_bearer_token(token, keys.public, clock),
                          token, keys.public)
    /\ UNCHANGED <<clients, keys, csrf, codes, rtokens, clock, pc, loc, origin, redeems>>
    /\ UNCHANGED first_party

\* discovery.py:10-35: the static metadata document
Discovery ==
    /\ out' = [ep |-> "discovery",
               issuer |-> "http://localhost:8000",
               response_types_supported |-> {"code"},
               grant_types_supported |-> {"authorization_code", "refresh_token"},
               token_endpoint_auth_methods_supported |->
                   {"client_secret_basic", "client_secret_post"},
               scopes_supported |->
                   {"tasks:read", "tasks:write", "openid", "profile", "email"},
               code_challenge_methods_supported |-> {"S256"}]
    /\ UNCHANGED <<clients, keys, csrf, codes, rtokens, clock, pc, loc, origin, redeems>>
    /\ UNCHANGED first_party

(***************************************************************************)
(* Client registry (register.py, crud.py OAuthClientCRUD).                 *)
(***************************************************************************)
AllowedGrantTypes == {"authorization_code", "refresh_token"}
AllowedResponseTypes == {"code"}
\* a variant of the allow-list of scopes with one more scope in it
AllowedScopesWithAdmin ==
    {"tasks:read", "tasks:write", "openid", "profile", "email", "admin"}

AllowedScopes == {"tasks:read", "tasks:write", "openid", "profile", "email"}

SeqToSet(s) == {s[i] : i \in 1..Len(s)}

RegisterRequests ==
    [grant_types : {<<"authorization_code", "refresh_token">>, <<"authorization_code">>,
                    <<"refresh_token">>, <<"password">>,
                    <<"authorization_code", "password">>},
     response_types : {<<"code">>, <<"code", "token">>},
     scope : {ScopeRead, ScopeReadAdmin},
     redirect_uris : {<<CallbackUri>>}]

RegisterOut(status, detail, client_id, client_secret) ==
    [ep |-> "register", status |-> status, detail |-> detail,
     client_id |-> client_id, client_secret |-> client_secret]

\* register.py:63-129
Register(req) ==
    /\ IF SeqToSet(req.grant_types) \ AllowedGrantTypes # {}
       THEN /\ out' = RegisterOut(400, "Invalid grant types", "", "")
            /\ UNCHANGED clients
       ELSE IF SeqToSet(req.response_types) \ AllowedResponseTypes # {}
       THEN /\ out' = RegisterOut(400, "Invalid response types", "", "")
            /\ UNCHANGED clients
       ELSE IF SplitScope(req.scope) \ AllowedScopes # {}
       THEN /\ out' = RegisterOut(400, "Invalid scopes", "", "")
            /\ UNCHANGED clients
       ELSE /\ Len(clients) < Len(ClientIdPool)
            /\ LET client_id == ClientIdPool[Len(clients) + 1]
                   row == [client_id |-> client_id,
                           client_secret |-> ClientSecretOf[client_id],
                           redirect_uris |-> SeqToSet(req.redirect_uris),
                           allowed_scopes |-> SplitScope(req.scope),
                           grant_types |-> SeqToSet(req.grant_types),
                           response_types |-> SeqToSet(req.response_types),
                           is_active |-> TRUE]
               IN /\ clients' = Append(clients, row)
                  /\ out' = RegisterOut(201, "", client_id, row.client_secret)
    /\ UNCHANGED <<keys, csrf, codes, rtokens, clock, pc, loc, origin, redeems>>
    /\ UNCHANGED first_party

\* crud.py:17-23: the rows with that client_id (at most one: the column is unique)
get_by_client_id(client_id) ==
    {i \in 1..Len(clients) : clients[i].client_id = client_id}

\* a variant that accepts every redirect URI for an active client
validate_redirect_uri_any(client_id, redirect_uri) ==
    \E i \in get_by_client_id(client_id) : clients[i].is_active

\* crud.py:38-50
validate_redirect_uri(client_id, redirect_uri) ==
    \E i \in get_by_client_id(client_id) :
        /\ clients[i].is_active
        /\ redirect_uri \in clients[i].redirect_uris

\* a variant that accepts every scope for an active client
validate_scopes_any(client_id, requested_scopes) ==
    \E i \in get_by_client_id(client_id) : clients[i].is_active

\* crud.py:52-65
validate_scopes(client_id, requested_scopes) ==
    \E i \in get_by_client_id(client_id) :
        /\ clients[i].is_active
        /\ SplitScope(requested_scopes) \subseteq clients[i].allowed_scopes

\* a variant that accepts any secret of a registered, active client
authenticate_client_any_secret(client_id, client_secret) ==
    \E i \in get_by_client_id(client_id) : clients[i].is_active

\* a variant that does not look at is_active
authenticate_client_ignoring_active(client_id, client_secret) ==
    \E i \in get_by_client_id(client_id) : clients[i].client_secret = client_secret

\* token.py:50-71
authenticate_client(client_id, client_secret) ==
    \E i \in get_by_client_id(client_id) :
        /\ clients[i].is_active
        /\ clients[i].client_secret = client_secret

(***************************************************************************)
(* Pending-authorization cache (csrf.py) and authorization endpoint        *)
(* (authorize.py).                                                         *)
(***************************************************************************)
AuthorizeGetRequests ==
    [client_id : ClientIds,
     redirect_uri : Uris,
     response_type : {"code", "token"},
     scope : {ScopeRead, ScopeReadWrite, ""},
     state : {"s1"},
     code_challenge : {Challenge1, ChallengeOfEmpty, ChallengeShort},
     code_challenge_method : {"S256", "plain"},
     user_id : Users \cup {NoUser}]

\* the parameters a GET can have cached when it renders the consent page
ConsentData ==
    [client_id : ClientIds,
     redirect_uri : {CallbackUri},
     scope : {ScopeRead},
     state : {"s1"},
     code_challenge : {Challenge1, ChallengeOfEmpty},
     code_challenge_method : {"S256"}]

ConsentFields ==
    {"client_id", "redirect_uri", "scope", "state", "code_challenge",
     "code_challenge_method"}

\* the consent form: a rendered form, as it is or with one field altered, with
\* the decision and any CSRF token
AuthorizePostForms ==
    {form \in [client_id : ClientIds,
               redirect_uri : Uris,
               scope : {ScopeRead, ScopeReadWrite},
               state : {"s1", "s2"},
               code_challenge : {Challenge1, ChallengeOfEmpty},
               code_challenge_method : {"S256", "plain"},
               approve : BOOLEAN,
               csrf_token : 1..MaxCsrf] :
        \E d \in ConsentData :
            Cardinality({x \in ConsentFields : form[x] # d[x]}) <= 1}

\* schemas.py:68-85: the pydantic constraints of AuthorizationRequest
ValidAuthorizationRequest(req) ==
    /\ req.client_id # ""
    /\ req.redirect_uri # ""
    /\ req.scope # ""
    /\ req.state # ""
    /\ Len(Chars(req.code_challenge)) >= CHALLENGE_MIN_LENGTH
    /\ Len(Chars(req.code_challenge)) <= CHALLENGE_MAX_LENGTH
    /\ req.code_challenge_method = "S256"

\* a response of /oauth/authorize: kind is "error_page" (HTML, 400), "redirect"
\* (303 to location, with error or code, and state), "login" (303) or "consent"
AuthorizeOut(ep, status, kind, client_id, location, error, description, state, csrf_token, approve, code) ==
    [ep |-> ep, status |-> status, kind |-> kind, client_id |-> client_id,
     location |-> location, error |-> error, error_description |-> description,
     state |-> state, approve |-> approve,
     csrf_token |-> csrf_token, code |-> code]

\* a variant that drops the state parameter from the redirect
redirect_error_without_state(ep, client_id, redirect_uri, error, description, state, csrf_token, approve) ==
    AuthorizeOut(ep, 303, "redirect", client_id, redirect_uri, error, description, "",
                 csrf_token, approve, 0)

\* authorize.py:257-275
redirect_error(ep, client_id, redirect_uri, error, description, state, csrf_token, approve) ==
    AuthorizeOut(ep, 303, "redirect", client_id, redirect_uri, error, description, state,
                 csrf_token, approve, 0)

\* a key of the cache exists while it is neither deleted nor past its TTL
CsrfKeyExists(token) ==
    /\ token \in 1..Len(csrf)
    /\ csrf[token].live

\* a variant that takes a requester without a session for user 1
get_optional_user_default(req) ==
    IF req.user_id = NoUser THEN 1 ELSE req.user_id

\* authorize.py:29-50: the user of the request's session (NoUser: none)
get_optional_user(req) ==
    req.user_id

\* authorize.py:73-170, up to redis.hset of generate_token (csrf.py:33-39)
AuthorizeGet(p, req) ==
    /\ pc[p] = "idle"
    /\ IF ~ValidAuthorizationRequest(req)
       THEN /\ out' = AuthorizeOut("authorize_get", 400, "error_page", "",
                                   "", "invalid_request", "", "", 0, FALSE, 0)
            /\ UNCHANGED <<csrf, pc, loc>>
       ELSE IF req.response_type # "code"
       THEN /\ out' = redirect_error("authorize_get", req.client_id, req.redirect_uri,
                                     "unsupported_response_type",
                                     "Only 'code' response_type is supported", req.state, 0, FALSE)
            /\ UNCHANGED <<csrf, pc, loc>>
       ELSE IF ~\E i \in get_by_client_id(req.client_id) : clients[i].is_active
       THEN /\ out' = AuthorizeOut("authorize_get", 400, "error_page", "",
                                   "", "invalid_client", "", "", 0, FALSE, 0)
            /\ UNCHANGED <<csrf, pc, loc>>
       ELSE IF ~validate_redirect_uri(req.client_id, req.redirect_uri)
       THEN /\ out' = AuthorizeOut("authorize_get", 400, "error_page", "",
                                   "", "invalid_redirect_uri", "", "", 0, FALSE, 0)
            /\ UNCHANGED <<csrf, pc, loc>>
       ELSE IF ~validate_scopes(req.client_id, req.scope)
       THEN /\ out' = redirect_error("authorize_get", req.client_id, req.redirect_uri,
                                     "invalid_scope",
                                     "One or more requested scopes are not allowed for this client",
                                     req.state, 0, FALSE)
            /\ UNCHANGED <<csrf, pc, loc>>
       ELSE IF get_optional_user(req) = NoUser
       THEN /\ out' = AuthorizeOut("authorize_get", 303, "login", "",
                                   "/api/auth/login", "", "", "", 0, FALSE, 0)
            /\ UNCHANGED <<csrf, pc, loc>>
       ELSE /\ Len(csrf) < MaxCsrf
            /\ csrf' = Append(csrf,
                         [data |-> [client_id |-> req.client_id,
                                    redirect_uri |-> req.redirect_uri,
                                    scope |-> req.scope,
                                    state |-> req.state,
                                    code_challenge |-> req.code_challenge,
                                    code_challenge_method |-> req.code_challenge_method,
                                    user_id |-> get_optional_user(req)],
                          expire_at |-> NoTtl,
                          live |-> TRUE])
            /\ pc' = [pc EXCEPT ![p] = "generate_token_expire"]
            /\ loc' = [loc EXCEPT ![p] = [token |-> Len(csrf) + 1,
                                          client_id |-> req.client_id]]
            /\ UNCHANGED out
    /\ UNCHANGED <<clients, keys, codes, rtokens, clock, origin, redeems>>
    /\ UNCHANGED first_party

\* csrf.py:40-42 (redis.expire) and authorize.py:172-189 (the consent page)
GenerateTokenExpire(p) ==
    /\ pc[p] = "generate_token_expire"
    /\ LET token == loc[p].token
       IN /\ csrf' = IF CsrfKeyExists(token)
                     THEN [csrf EXCEPT ![token].expire_at =
                                           clock + (TOKEN_EXPIRY_SECONDS \div 60)]
                     ELSE csrf
          /\ out' = AuthorizeOut("authorize_get", 200, "consent", loc[p].client_id,
                                 "", "", "", "", token, FALSE, 0)
    /\ pc' = [pc EXCEPT ![p] = "idle"]
    /\ loc' = [loc EXCEPT ![p] = NoLoc]
    /\ UNCHANGED <<clients, keys, codes, rtokens, clock, origin, redeems>>
    /\ UNCHANGED first_party

\* a variant that does not compare the PKCE challenge
FormMatchesIgnoringChallenge(data, form) ==
    /\ data.client_id = form.client_id
    /\ data.redirect_uri = form.redirect_uri
    /\ data.scope = form.scope
    /\ data.state = form.state
    /\ data.code_challenge_method = form.code_challenge_method

\* authorize.py:218-227: the resubmitted fields against the cached ones
FormMatches(data, form) ==
    /\ data.client_id = form.client_id
    /\ data.redirect_uri = form.redirect_uri
    /\ data.scope = form.scope
    /\ data.state = form.state
    /\ data.code_challenge = form.code_challenge
    /\ data.code_challenge_method = form.code_challenge_method

\* authorize.py:211-216 with csrf.py:58-65: redis.hgetall of validate_and_consume
AuthorizePost(p, form) ==
    /\ pc[p] = "idle"
    /\ IF ~CsrfKeyExists(form.csrf_token)
       THEN /\ out' = redirect_error("authorize_post", form.client_id, form.redirect_uri,
                                     "access_denied", "Invalid or expired CSRF token",
                                     form.state, form.csrf_token, form.approve)
            /\ UNCHANGED <<pc, loc>>
       ELSE /\ \/ ~(form.approve /\ FormMatches(csrf[form.csrf_token].data, form))
               \/ Len(codes) + InFlight("consume_delete") < MaxCodes
            /\ pc' = [pc EXCEPT ![p] = "consume_delete"]
            /\ loc' = [loc EXCEPT ![p] = [form |-> form,
                                          data |-> csrf[form.csrf_token].data]]
            /\ UNCHANGED out
    /\ UNCHANGED <<clients, keys, csrf, codes, rtokens, clock, origin, redeems>>
    /\ UNCHANGED first_party

\* a variant that binds every code to user 1
NewAuthorizationCodeOfUser1(client_id, user_id, redirect_uri, scope, challenge, method) ==
    [client_id |-> client_id,
     user_id |-> 1,
     redirect_uri |-> redirect_uri,
     scope |-> scope,
     code_challenge |-> challenge,
     code_challenge_method |-> method,
     created_at |-> clock,
     expires_at |-> clock + CODE_EXPIRY_MINUTES,
     is_used |-> FALSE,
     used_at |-> NoTtl]

\* crud.py:96-115: the row OAuthAuthorizationCodeCRUD.create inserts
NewAuthorizationCode(client_id, user_id, redirect_uri, scope, challenge, method) ==
    [client_id |-> client_id,
     user_id |-> user_id,
     redirect_uri |-> redirect_uri,
     scope |-> scope,
     code_challenge |-> challenge,
     code_challenge_method |-> method,
     created_at |-> clock,
     expires_at |-> clock + CODE_EXPIRY_MINUTES,
     is_used |-> FALSE,
     used_at |-> NoTtl]

\* the cache with no key left to delete
redis_delete_nothing(token) == csrf

\* csrf.py:68: redis.delete(key)
redis_delete(token) == [csrf EXCEPT ![token] = Gone]

\* csrf.py:67-70 (redis.delete, return data) and authorize.py:218-254
ConsumeDelete(p) ==
    /\ pc[p] = "consume_delete"
    /\ LET form == loc[p].form
           data == loc[p].data
       IN /\ csrf' = redis_delete(form.csrf_token)
          /\ IF ~FormMatches(data, form)
             THEN /\ out' = redirect_error("authorize_post", form.client_id,
                                           form.redirect_uri, "access_denied",
                                           "CSRF validation failed",
                                           form.state, form.csrf_token, form.approve)
                  /\ UNCHANGED <<codes, origin, redeems>>
             ELSE IF ~form.approve
             THEN /\ out' = redirect_error("authorize_post", form.client_id,
                                           form.redirect_uri, "access_denied",
                                           "User denied authorization",
                                           form.state, form.csrf_token, form.approve)
                  /\ UNCHANGED <<codes, origin, redeems>>
             ELSE /\ codes' = Append(codes,
                                NewAuthorizationCode(form.client_id, data.user_id,
                                    form.redirect_uri, form.scope, form.code_challenge,
                                    form.code_challenge_method))
                  /\ origin' = Append(origin, form.csrf_token)
                  /\ redeems' = Append(redeems, 0)
                  /\ out' = AuthorizeOut("authorize_post", 303, "redirect",
                                         form.client_id, form.redirect_uri, "", "",
                                         form.state, form.csrf_token, form.approve,
                                         Len(codes) + 1)
    /\ pc' = [pc EXCEPT ![p] = "idle"]
    /\ loc' = [loc EXCEPT ![p] = NoLoc]
    /\ UNCHANGED <<clients, keys, rtokens, clock>>
    /\ UNCHANGED first_party

(***************************************************************************)
(* Token endpoint (token.py) with the code and refresh-token stores        *)
(* (crud.py).                                                              *)
(***************************************************************************)
Verifiers == {VerifierEmpty, Verifier1, Verifier2, VerifierNonAscii}

\* the form of POST /oauth/token; the fields a grant type never reads are missing
TokenRequests ==
    [grant_type : {"authorization_code"}, client_id : ClientIds,
     client_secret : Secrets, code : 0..MaxCodes, redirect_uri : Uris \cup {""},
     code_verifier : Verifiers, refresh_token : {0}]
    \cup
    [grant_type : {"refresh_token"}, client_id : ClientIds,
     client_secret : Secrets, code : {0}, redirect_uri : {""},
     code_verifier : {VerifierEmpty}, refresh_token : 0..MaxRefresh]
    \cup
    [grant_type : {"password"}, client_id : ClientIds,
     client_secret : Secrets, code : {0}, redirect_uri : {""},
     code_verifier : {VerifierEmpty}, refresh_token : {0}]

TokenOut(grant_type, client_id, code, uri, presented, status, detail, at, rt, scope) ==
    [ep |-> "token", grant_type |-> grant_type, client_id |-> client_id,
     code |-> code, redirect_uri |-> uri, presented |-> presented,
     status |-> status, detail |-> detail,
     access_token |-> at,
     token_type |-> IF status = 200 THEN "Bearer" ELSE "",
     expires_in |-> IF status = 200 THEN EXPIRES_IN ELSE 0,
     refresh_token |-> rt, scope |-> scope]

\* a variant that repeats the presented secret in its answer
TokenErrorWithSecret(req, status, detail) ==
    TokenOut(req.grant_type, "", 0, "", 0, status, req.client_secret, NoAccessToken, 0, "")

\* a variant that answers every refused request as a failed authentication
TokenErrorAlways401(req, status, detail) ==
    TokenOut(req.grant_type, "", 0, "", 0, 401, "Client authentication failed",
             NoAccessToken, 0, "")

\* an error raised before any code or refresh token is looked up
TokenError(req, status, detail) ==
    TokenOut(req.grant_type, "", 0, "", 0, status, detail, NoAccessToken, 0, "")

\* a variant that tells the client when the code it presented was used before
TokenLookupErrorNamingUse(req, status, detail) ==
    TokenOut(req.grant_type, req.client_id, req.code, req.redirect_uri,
             req.refresh_token, status,
             IF req.code \in 1..Len(codes) /\ codes[req.code].is_used
             THEN "Authorization code already used"
             ELSE detail,
             NoAccessToken, 0, "")

\* an error raised by the lookup of the presented code or refresh token
TokenLookupError(req, status, detail) ==
    TokenOut(req.grant_type, req.client_id, req.code, req.redirect_uri,
             req.refresh_token, status, detail, NoAccessToken, 0, "")

InvalidCodeDetail == "Invalid authorization code or code expired/used"
InvalidRefreshDetail == "Invalid refresh token or token expired/revoked"
PkceFailedDetail == "PKCE verification failed: invalid code_verifier"

\* variant of the WHERE clause that does not look at is_used
CodeRowMatchesUsedToo(row, client_id, redirect_uri, now) ==
    /\ row.client_id = client_id
    /\ row.redirect_uri = redirect_uri
    /\ row.expires_at > now

\* variant of the WHERE clause that accepts any authenticated client
CodeRowMatchesAnyClient(row, client_id, redirect_uri, now) ==
    /\ row.is_used = FALSE
    /\ row.redirect_uri = redirect_uri
    /\ row.expires_at > now

\* variant of the WHERE clause that compares redirect URIs up to a trailing slash
CodeRowMatchesUpToSlash(row, client_id, redirect_uri, now) ==
    /\ row.client_id = client_id
    /\ \/ row.redirect_uri = redirect_uri
       \/ redirect_uri = CallbackSlashUri /\ row.redirect_uri = CallbackUri
       \/ redirect_uri = CallbackUri /\ row.redirect_uri = CallbackSlashUri
    /\ row.is_used = FALSE
    /\ row.expires_at > now

\* variant of the WHERE clause that still accepts a code at its expiry time
CodeRowMatchesAtExpiry(row, client_id, redirect_uri, now) ==
    /\ row.client_id = client_id
    /\ row.redirect_uri = redirect_uri
    /\ row.is_used = FALSE
    /\ row.expires_at >= now

\* variant of the WHERE clause that does not look at is_used
CodeRowMatchesIgnoringUsed(row, client_id, redirect_uri, now) ==
    /\ row.client_id = client_id
    /\ row.redirect_uri = redirect_uri
    /\ row.expires_at > now

\* crud.py:150-161: the WHERE clause of validate_and_use
CodeRowMatches(row, client_id, redirect_uri, now) ==
    /\ row.client_id = client_id
    /\ row.redirect_uri = redirect_uri
    /\ row.is_used = FALSE
    /\ row.expires_at > now

\* crud.py:148-163: the row validate_and_use selects (0: none)
SelectCode(code, client_id, redirect_uri, now) ==
    IF code \in 1..Len(codes) /\ CodeRowMatches(codes[code], client_id, redirect_uri, now)
    THEN code
    ELSE 0

\* variant of the WHERE clause that does not look at is_active
RefreshRowMatchesIgnoringActive(row, client_id, now) ==
    /\ row.client_id = client_id
    /\ row.expires_at > now

\* variant of the WHERE clause that accepts any authenticated client
RefreshRowMatchesAnyClient(row, client_id, now) ==
    /\ row.is_active = TRUE
    /\ row.expires_at > now

\* crud.py:248-257: the WHERE clause of validate_and_get
RefreshRowMatches(row, client_id, now) ==
    /\ row.client_id = client_id
    /\ row.is_active = TRUE
    /\ row.expires_at > now

\* crud.py:231-259: the row validate_and_get returns (0: none)
validate_and_get(token, client_id, now) ==
    IF token \in 1..Len(rtokens) /\ RefreshRowMatches(rtokens[token], client_id, now)
    THEN token
    ELSE 0

\* a variant that stores every refresh token with the admin scope
NewRefreshTokenWithAdminScope(client_id, user_id, scope) ==
    [client_id |-> client_id,
     user_id |-> user_id,
     scope |-> ScopeReadAdmin,
     is_active |-> TRUE,
     expires_at |-> clock + REFRESH_EXPIRY_DAYS * 24 * 60,
     revoked_at |-> NoTtl]

\* crud.py:202-218: the row OAuthRefreshTokenCRUD.create inserts
NewRefreshToken(client_id, user_id, scope) ==
    [client_id |-> client_id,
     user_id |-> user_id,
     scope |-> scope,
     is_active |-> TRUE,
     expires_at |-> clock + REFRESH_EXPIRY_DAYS * 24 * 60,
     revoked_at |-> NoTtl]

\* crud.py:261-288: OAuthRefreshTokenCRUD.revoke; an unknown token changes nothing
Revoke(token) ==
    /\ rtokens' = IF token \in 1..Len(rtokens)
                  THEN [rtokens EXCEPT ![token].is_active = FALSE,
                                       ![token].revoked_at = clock]
                  ELSE rtokens
    /\ UNCHANGED <<clients, keys, csrf, codes, clock, pc, loc, out, origin, redeems>>
    /\ UNCHANGED first_party

\* variant of the refresh grant that hands out a token string of its own
handle_refresh_token_grant_rotating(req) ==
    IF req.refresh_token = 0
    THEN TokenError(req, 400, "Missing required parameter: refresh_token")
    ELSE LET t == validate_and_get(req.refresh_token, req.client_id, clock)
         IN IF t = 0
            THEN TokenLookupError(req, 400, InvalidRefreshDetail)
            ELSE TokenOut(req.grant_type, req.client_id, req.code, req.redirect_uri,
                          req.refresh_token, 200, "",
                          create_access_token(rtokens[t].user_id, req.client_id,
                                              rtokens[t].scope),
                          Len(rtokens) + 1, rtokens[t].scope)

\* token.py:229-280
handle_refresh_token_grant(req) ==
    IF req.refresh_token = 0
    THEN TokenError(req, 400, "Missing required parameter: refresh_token")
    ELSE LET t == validate_and_get(req.refresh_token, req.client_id, clock)
         IN IF t = 0
            THEN TokenLookupError(req, 400, InvalidRefreshDetail)
            ELSE IF ~PrivateKeyExists
            THEN TokenLookupError(req, 500, "FileNotFoundError")
            ELSE TokenOut(req.grant_type, req.client_id, req.code, req.redirect_uri,
                          req.refresh_token, 200, "",
                          create_access_token(rtokens[t].user_id, req.client_id,
                                              rtokens[t].scope),
                          req.refresh_token, rtokens[t].scope)

\* a variant of the token endpoint that marks a code used when it refuses it
TokenRequestMarkingRefused(p, req) ==
    /\ pc[p] = "idle"
    /\ req.code \in 1..Len(codes)
    /\ out' = TokenLookupError(req, 400, InvalidCodeDetail)
    /\ codes' = [codes EXCEPT ![req.code].is_used = TRUE]
    /\ UNCHANGED <<clients, keys, csrf, rtokens, clock, pc, loc, origin, redeems>>
    /\ UNCHANGED first_party

\* token.py:112-188: client authentication, dispatch on grant_type, and for a code
\* exchange the checks up to the SELECT of validate_and_use (crud.py:148-163)
TokenRequest(p, req) ==
    /\ pc[p] = "idle"
    /\ IF ~authenticate_client(req.client_id, req.client_secret)
       THEN /\ out' = TokenError(req, 401, "Client authentication failed")
            /\ UNCHANGED <<pc, loc>>
       ELSE IF req.grant_type = "refresh_token"
       THEN /\ out' = handle_refresh_token_grant(req)
            /\ UNCHANGED <<pc, loc>>
       ELSE IF req.grant_type # "authorization_code"
       THEN /\ out' = TokenError(req, 400, "Unsupported grant type: " \o req.grant_type)
            /\ UNCHANGED <<pc, loc>>
       ELSE IF req.code = 0
       THEN /\ out' = TokenError(req, 400, "Missing required parameter: code")
            /\ UNCHANGED <<pc, loc>>
       ELSE IF req.redirect_uri = ""
       THEN /\ out' = TokenError(req, 400, "Missing required parameter: redirect_uri")
            /\ UNCHANGED <<pc, loc>>
       ELSE IF req.code_verifier = ""
       THEN /\ out' = TokenError(req, 400, "Missing required parameter: code_verifier")
            /\ UNCHANGED <<pc, loc>>
       ELSE IF SelectCode(req.code, req.client_id, req.redirect_uri, clock) = 0
       THEN /\ out' = TokenLookupError(req, 400, InvalidCodeDetail)
            /\ UNCHANGED <<pc, loc>>
       ELSE /\ Len(rtokens) + InFlight("mark_used") < MaxRefresh
            /\ pc' = [pc EXCEPT ![p] = "mark_used"]
            /\ loc' = [loc EXCEPT ![p] = [code |-> req.code,
                                          client_id |-> req.client_id,
                                          redirect_uri |-> req.redirect_uri,
                                          code_verifier |-> req.code_verifier]]
            /\ UNCHANGED out
    /\ UNCHANGED <<clients, keys, csrf, codes, rtokens, clock, origin, redeems>>
    /\ UNCHANGED first_party

\* crud.py:165-170 (is_used, used_at, commit) and token.py:190-226
TokenMarkUsed(p) ==
    /\ pc[p] = "mark_used"
    /\ LET k == loc[p].code
           client_id == loc[p].client_id
           code_verifier == loc[p].code_verifier
           auth_code == codes[k]
           fail(status, detail) ==
               TokenOut("authorization_code", client_id, k, loc[p].redirect_uri, 0,
                        status, detail, NoAccessToken, 0, "")
       IN /\ codes' = [codes EXCEPT ![k].is_used = TRUE, ![k].used_at = clock]
          /\ IF auth_code.code_challenge = "" \/ auth_code.code_challenge_method = ""
             THEN /\ out' = fail(400, "Authorization code missing PKCE challenge")
                  /\ UNCHANGED <<rtokens, redeems>>
             ELSE IF auth_code.code_challenge_method = "S256" /\ ~IsAscii(code_verifier)
             THEN /\ out' = fail(500, "UnicodeEncodeError")
                  /\ UNCHANGED <<rtokens, redeems>>
             ELSE IF ~verify_pkce(code_verifier, auth_code.code_challenge,
                                  auth_code.code_challenge_method)
             THEN /\ out' = fail(400, PkceFailedDetail)
                  /\ UNCHANGED <<rtokens, redeems>>
             ELSE IF ~PrivateKeyExists
             THEN /\ out' = fail(500, "FileNotFoundError")
                  /\ UNCHANGED <<rtokens, redeems>>
             ELSE /\ rtokens' = Append(rtokens,
                                  NewRefreshToken(client_id, auth_code.user_id,
                                                  auth_code.scope))
                  /\ redeems' = [redeems EXCEPT ![k] = @ + 1]
                  /\ out' = TokenOut("authorization_code", client_id, k,
                                     loc[p].redirect_uri, 0, 200, "",
                                     create_access_token(auth_code.user_id, client_id,
                                                         auth_code.scope),
                                     Len(rtokens) + 1, auth_code.scope)
    /\ pc' = [pc EXCEPT ![p] = "idle"]
    /\ loc' = [loc EXCEPT ![p] = NoLoc]
    /\ UNCHANGED <<clients, keys, csrf, clock, origin>>
    /\ UNCHANGED first_party

(***************************************************************************)
(* Specifications.  Spec interleaves the steps of NumProcs handlers; in    *)
(* SpecSeq a request is taken up only when no other one is being handled.  *)
(***************************************************************************)
Quiet == \A p \in Procs : pc[p] = "idle"

\* the requests the interleaved specification draws: the well-formed requests of
\* registered clients, a wrong verifier, a denied and an altered consent form
InterleavedRegisterRequests ==
    {req \in RegisterRequests :
        /\ req.grant_types = <<"authorization_code", "refresh_token">>
        /\ req.response_types = <<"code">>
        /\ req.scope = ScopeRead}

InterleavedGetRequests ==
    {req \in AuthorizeGetRequests :
        /\ req.redirect_uri = CallbackUri
        /\ req.response_type = "code"
        /\ req.scope = ScopeRead
        /\ req.code_challenge = Challenge1
        /\ req.code_challenge_method = "S256"
        /\ req.user_id = 1}

InterleavedPostForms ==
    {form \in AuthorizePostForms :
        /\ form.redirect_uri = CallbackUri
        /\ form.scope = ScopeRead
        /\ form.code_challenge = Challenge1
        /\ form.code_challenge_method = "S256"}

InterleavedTokenRequests ==
    {req \in TokenRequests :
        /\ req.grant_type # "password"
        /\ req.client_secret = ClientSecretOf[req.client_id]
        /\ req.grant_type = "authorization_code" =>
              /\ req.code # 0
              /\ req.redirect_uri = CallbackUri
              /\ req.code_verifier \in {Verifier1, Verifier2}
        /\ req.grant_type = "refresh_token" => req.refresh_token # 0}

Next ==
    \/ \E req \in InterleavedRegisterRequests : Register(req)
    \/ EnsureKeysExist
    \/ Tick
    \/ \E p \in Procs : \E req \in InterleavedGetRequests : AuthorizeGet(p, req)
    \/ \E p \in Procs : GenerateTokenExpire(p)
    \/ \E p \in Procs : \E form \in InterleavedPostForms : AuthorizePost(p, form)
    \/ \E p \in Procs : ConsumeDelete(p)
    \/ \E p \in Procs : \E req \in InterleavedTokenRequests : TokenRequest(p, req)
    \/ \E p \in Procs : TokenMarkUsed(p)
    \/ \E t \in 1..MaxRefresh : Revoke(t)

Spec == Init /\ [][Next]_vars

\* the handler that takes up the requests handled one after the other
Worker == CHOOSE p \in Procs : TRUE

\* the registrations SpecSeq draws: both grant types, or a refused one
SeqRegisterRequests ==
    {req \in RegisterRequests :
        /\ req.grant_types \in {<<"authorization_code", "refresh_token">>, <<"password">>}
        /\ req.response_types = <<"code">>}

NextSeq ==
    \/ Quiet /\ \E req \in SeqRegisterRequests : Register(req)
    \/ Quiet /\ EnsureKeysExist
    \/ Quiet /\ Tick
    \/ Quiet /\ TickRefreshLifetime
    \/ Quiet /\ \E req \in AuthorizeGetRequests : AuthorizeGet(Worker, req)
    \/ \E p \in Procs : GenerateTokenExpire(p)
    \/ Quiet /\ \E form \in AuthorizePostForms : AuthorizePost(Worker, form)
    \/ \E p \in Procs : ConsumeDelete(p)
    \/ Quiet /\ \E req \in TokenRequests : TokenRequest(Worker, req)
    \/ \E p \in Procs : TokenMarkUsed(p)
    \/ Quiet /\ \E t \in 1..MaxRefresh : Revoke(t)

SpecSeq == Init /\ [][NextSeq]_vars

\* the token requests of SpecGrants: those of the interleaved specification,
\* with any secret and any grant type
GrantsTokenRequests ==
    {req \in TokenRequests :
        /\ req.grant_type = "authorization_code" =>
              /\ req.code # 0
              /\ req.redirect_uri = CallbackUri
              /\ req.code_verifier \in {Verifier1, Verifier2}
        /\ req.grant_type = "refresh_token" => req.refresh_token # 0}

\* SpecGrants: clients register any subset of the grant types; their
\* well-formed requests and the requests for the metadata and the key set are
\* handled one after the other
NextGrants ==
    \/ Quiet /\ \E req \in RegisterRequests : Register(req)
    \/ Quiet /\ EnsureKeysExist
    \/ Quiet /\ Discovery
    \/ Quiet /\ KeyCall(Worker, "jwks", NoAccessToken)
    \/ \E p \in Procs : WritePrivateKey(p)
    \/ \E p \in Procs : WritePublicKey(p)
    \/ Quiet /\ Tick
    \/ Quiet /\ \E req \in InterleavedGetRequests : AuthorizeGet(Worker, req)
    \/ \E p \in Procs : GenerateTokenExpire(p)
    \/ Quiet /\ \E form \in InterleavedPostForms : AuthorizePost(Worker, form)
    \/ \E p \in Procs : ConsumeDelete(p)
    \/ Quiet /\ \E req \in GrantsTokenRequests : TokenRequest(Worker, req)
    \/ \E p \in Procs : TokenMarkUsed(p)

SpecGrants == Init /\ [][NextGrants]_vars

\* SpecKeys: the key material manager, the issuer and the verifiers, with the
\* steps of concurrent calls interleaved; in SpecKeysSeq a call is taken up
\* only when no other one is being handled
InterleavedPresentedTokens ==
    {token \in PresentedTokens :
        /\ token.iss = Issuer
        /\ token.aud = Audience
        /\ token.exp = ACCESS_EXPIRY_MINUTES
        /\ token.key # 0}

NextKeys ==
    \/ \E p \in Procs : \E call \in KeyCalls :
           \E token \in InterleavedPresentedTokens \cup {NoAccessToken} :
               KeyCall(p, call, token)
    \/ \E p \in Procs : WritePrivateKey(p)
    \/ \E p \in Procs : WritePublicKey(p)
    \/ \E user_id \in Users : IssueAccessToken(user_id, "c1", ScopeRead)
    \/ \E token \in InterleavedPresentedTokens : VerifyBearerToken(token)
    \/ Tick

SpecKeys == Init /\ [][NextKeys]_vars

NextKeysSeq ==
    \/ Quiet /\ \E call \in KeyCalls :
           \E token \in PresentedTokens \cup {NoAccessToken} : KeyCall(Worker, call, token)
    \/ \E p \in Procs : WritePrivateKey(p)
    \/ \E p \in Procs : WritePublicKey(p)
    \/ Quiet /\ \E user_id \in Users : IssueAccessToken(user_id, "c1", ScopeRead)
    \/ Quiet /\ \E token \in PresentedTokens : VerifyBearerToken(token)
    \/ Quiet /\ Tick

SpecKeysSeq == Init /\ [][NextKeysSeq]_vars

\* SpecKeysDisk: the calls of SpecKeysSeq, started with the key directory as
\* the process may find it: empty, holding a key pair, or holding only a
\* private key (jwt.py needs no more to sign; an ensure_keys_exist call that
\* failed between its two writes leaves no more)
InitKeysDisk ==
    /\ InitFirstParty
    /\ clients = <<>>
    /\ keys \in {[private |-> 0, public |-> 0],
                 [private |-> 1, public |-> 1],
                 [private |-> 1, public |-> 0]}
    /\ csrf = <<>>
    /\ codes = <<>>
    /\ rtokens = <<>>
    /\ clock = 0
    /\ pc = [p \in Procs |-> "idle"]
    /\ loc = [p \in Procs |-> NoLoc]
    /\ out = NoOut
    /\ origin = <<>>
    /\ redeems = <<>>

SpecKeysDisk == InitKeysDisk /\ [][NextKeysSeq]_vars

\* the PKCE columns a code row can hold: both are nullable (models.py:70-71) and
\* optional in OAuthAuthorizationCodeCRUD.create (crud.py:78-79); "" stands for
\* None, which token.py:191 treats alike
StoredChallenges == {"", Challenge1, Verifier1}
StoredMethods == {"", "S256", "plain", "S512"}

\* crud.py:74-115: OAuthAuthorizationCodeCRUD.create, called with any PKCE
\* parameters for a registered client
CreateAuthorizationCode(client_id, user_id, code_challenge, code_challenge_method) ==
    /\ Len(codes) < MaxCodes
    /\ \E i \in 1..Len(clients) : clients[i].client_id = client_id
    /\ codes' = Append(codes, NewAuthorizationCode(client_id, user_id, CallbackUri,
                                                  ScopeRead, code_challenge,
                                                  code_challenge_method))
    /\ origin' = Append(origin, 0)
    /\ redeems' = Append(redeems, 0)
    /\ UNCHANGED <<clients, keys, csrf, rtokens, clock, pc, loc, out>>
    /\ UNCHANGED first_party

\* the code exchanges of SpecPkce: an authenticated client redeems a code at
\* its redirect URI with any non-empty verifier
PkceTokenRequests ==
    {req \in TokenRequests :
        /\ req.grant_type = "authorization_code"
        /\ req.client_secret = ClientSecretOf[req.client_id]
        /\ req.code # 0
        /\ req.redirect_uri = CallbackUri
        /\ req.code_verifier # VerifierEmpty}

\* SpecPkce: codes stored with any PKCE columns are redeemed, one request
\* after the other
NextPkce ==
    \/ Quiet /\ \E req \in SeqRegisterRequests : Register(req)
    \/ Quiet /\ EnsureKeysExist
    \/ Quiet /\ Tick
    \/ Quiet /\ \E c \in ClientIds, ch \in StoredChallenges, m \in StoredMethods :
                    CreateAuthorizationCode(c, 1, ch, m)
    \/ Quiet /\ \E req \in PkceTokenRequests : TokenRequest(Worker, req)
    \/ \E p \in Procs : TokenMarkUsed(p)

SpecPkce == Init /\ [][NextPkce]_vars

\* models.py:40: the is_active column of a client row is set to false (no
\* endpoint does it; the row is updated in the database)
DeactivateClient(i) ==
    /\ i \in 1..Len(clients)
    /\ clients[i].is_active
    /\ clients' = [clients EXCEPT ![i].is_active = FALSE]
    /\ UNCHANGED <<keys, csrf, codes, rtokens, clock, pc, loc, out, origin, redeems>>
    /\ UNCHANGED first_party

\* the token requests of SpecInactive: any client and secret, any code at the
\* registered redirect URI with the matching verifier, any refresh token
InactiveTokenRequests ==
    {req \in TokenRequests :
        /\ req.grant_type = "authorization_code" =>
              /\ req.code # 0
              /\ req.redirect_uri = CallbackUri
              /\ req.code_verifier = Verifier1
        /\ req.grant_type = "refresh_token" => req.refresh_token # 0}

\* token requests with a grant type the endpoint does not know, carrying any
\* code, redirect URI, verifier and refresh token
OtherGrantRequests ==
    [grant_type : {"password", "client_credentials"}, client_id : ClientIds,
     client_secret : Secrets, code : 0..MaxCodes, redirect_uri : {"", CallbackUri},
     code_verifier : {VerifierEmpty, Verifier1}, refresh_token : 0..MaxRefresh]

\* SpecInactive: clients obtain codes and refresh tokens and are deactivated at
\* any moment, also while a request of theirs is being handled
NextInactive ==
    \/ Quiet /\ \E req \in SeqRegisterRequests : Register(req)
    \/ Quiet /\ EnsureKeysExist
    \/ Quiet /\ Tick
    \/ Quiet /\ \E c \in ClientIds : CreateAuthorizationCode(c, 1, Challenge1, "S256")
    \/ Quiet /\ \E req \in InactiveTokenRequests : TokenRequest(Worker, req)
    \/ Quiet /\ \E req \in OtherGrantRequests : TokenRequest(Worker, req)
    \/ \E p \in Procs : TokenMarkUsed(p)
    \/ \E i \in 1..Len(ClientIdPool) : DeactivateClient(i)

SpecInactive == Init /\ [][NextInactive]_vars

(***************************************************************************)
(* First-party login (app/api/auth.py, app/db/crud.py): password reset     *)
(* tokens and session refresh tokens.  A token string is the number of the *)
(* row it was generated for; 0 is a string that was never generated.       *)
(***************************************************************************)
RESET_EXPIRY_MINUTES == 60              \* crud.py:194, timedelta(hours=1)
SESSION_EXPIRY_DAYS == 30               \* crud.py:279, timedelta(days=30)

NewPasswords == {"FirstPassword123", "SecondPassword123"}

FirstPartyOut(ep, status, detail, user_id, token, password, count) ==
    [ep |-> ep, status |-> status, detail |-> detail, user_id |-> user_id,
     token |-> token, password |-> password, count |-> count]

\* time passes: ten minutes, the lifetime of a reset token, or that of a session
Elapse(minutes) ==
    /\ clock <= MaxClock
    /\ clock' = clock + minutes
    /\ csrf' = [t \in 1..Len(csrf) |->
                   IF csrf[t].live /\ csrf[t].expire_at # NoTtl /\ csrf[t].expire_at <= clock'
                   THEN Gone
                   ELSE csrf[t]]
    /\ UNCHANGED <<clients, keys, codes, rtokens, pc, loc, out, origin, redeems>>
    /\ UNCHANGED first_party

\* crud.py:173-200: PasswordResetTokenCRUD.create
NewPasswordResetToken(user_id, token) ==
    [user_id |-> user_id,
     token_hash |-> hash_password(token),
     expires_at |-> clock + RESET_EXPIRY_MINUTES,
     created_at |-> clock,
     used_at |-> NoTtl]

\* auth.py:129-166: POST /api/auth/forgot-password; NoUser is an unknown email
ForgotPassword(user_id) ==
    /\ IF user_id \in Users
       THEN /\ Len(reset_tokens) < MaxResetTokens
            /\ reset_tokens' = Append(reset_tokens,
                                      NewPasswordResetToken(user_id, Len(reset_tokens) + 1))
       ELSE UNCHANGED reset_tokens
    /\ out' = FirstPartyOut("forgot_password", 200,
                            "If the email exists, a password reset link has been sent",
                            0, 0, "", 0)
    /\ UNCHANGED <<clients, keys, csrf, codes, rtokens, clock, pc, loc, origin, redeems>>
    /\ UNCHANGED <<password_hash, refresh_tokens>>

\* a variant of the WHERE clause that does not look at used_at
ResetTokenRowMatchesUsedToo(row, now) ==
    row.expires_at > now

\* crud.py:222-228: the WHERE clause of PasswordResetTokenCRUD.validate_and_use
ResetTokenRowMatches(row, now) ==
    /\ row.used_at = NoTtl
    /\ row.expires_at > now

\* crud.py:219-236: the first selected row whose hash the token verifies
\* against, 0 if there is none
SelectResetToken(token, now) ==
    LET hits == {i \in 1..Len(reset_tokens) :
                    /\ ResetTokenRowMatches(reset_tokens[i], now)
                    /\ verify_password(token, reset_tokens[i].token_hash)}
    IN IF hits = {} THEN 0 ELSE CHOOSE i \in hits : \A j \in hits : i <= j

\* auth.py:171-191 and crud.py:217-236: POST /api/auth/reset-password up to
\* the SELECT of validate_and_use and the bcrypt loop
ResetPassword(p, token, new_password) ==
    /\ pc[p] = "idle"
    /\ LET i == SelectResetToken(token, clock)
       IN IF i = 0
          THEN /\ out' = FirstPartyOut("reset_password", 400,
                                       "Invalid or expired password reset token",
                                       0, token, new_password, 0)
               /\ UNCHANGED <<pc, loc>>
          ELSE /\ pc' = [pc EXCEPT ![p] = "reset_mark_used"]
               /\ loc' = [loc EXCEPT ![p] = [row |-> i, token |-> token,
                                             new_password |-> new_password]]
               /\ UNCHANGED out
    /\ UNCHANGED <<clients, keys, csrf, codes, rtokens, clock, origin, redeems>>
    /\ UNCHANGED first_party

\* crud.py:237-240: used_at is set and committed
ResetMarkUsed(p) ==
    /\ pc[p] = "reset_mark_used"
    /\ reset_tokens' = [reset_tokens EXCEPT ![loc[p].row].used_at = clock]
    /\ pc' = [pc EXCEPT ![p] = "reset_update_password"]
    /\ UNCHANGED <<clients, keys, csrf, codes, rtokens, clock, loc, out, origin, redeems>>
    /\ UNCHANGED <<password_hash, refresh_tokens>>

\* auth.py:193-205 and crud.py:45-71: the new hash is stored, the request answered
ResetUpdatePassword(p) ==
    /\ pc[p] = "reset_update_password"
    /\ LET user_id == reset_tokens[loc[p].row].user_id
       IN /\ password_hash' = [password_hash EXCEPT
                                  ![user_id] = hash_password(loc[p].new_password)]
          /\ out' = FirstPartyOut("reset_password", 200, "Password reset successful",
                                  user_id, loc[p].token, loc[p].new_password, 0)
    /\ pc' = [pc EXCEPT ![p] = "idle"]
    /\ loc' = [loc EXCEPT ![p] = NoLoc]
    /\ UNCHANGED <<clients, keys, csrf, codes, rtokens, clock, origin, redeems>>
    /\ UNCHANGED <<reset_tokens, refresh_tokens>>

\* crud.py:251-292: RefreshTokenCRUD.create
NewSessionRefreshToken(user_id, token) ==
    [user_id |-> user_id,
     token_hash |-> hash_password(token),
     expires_at |-> clock + SESSION_EXPIRY_DAYS * 24 * 60,
     created_at |-> clock,
     last_used_at |-> clock,
     revoked_at |-> NoTtl]

\* auth.py:70-113 and service.py:53-81: POST /api/auth/login
Login(user_id, password) ==
    /\ IF user_id \notin Users \/ ~verify_password(password, password_hash[user_id])
       THEN /\ out' = FirstPartyOut("login", 401, "Invalid credentials", 0, 0, password, 0)
            /\ UNCHANGED refresh_tokens
       ELSE /\ Len(refresh_tokens) < MaxSessions
            /\ refresh_tokens' = Append(refresh_tokens,
                                        NewSessionRefreshToken(user_id,
                                                               Len(refresh_tokens) + 1))
            /\ out' = FirstPartyOut("login", 200, "", user_id, Len(refresh_tokens) + 1,
                                    password, 0)
    /\ UNCHANGED <<clients, keys, csrf, codes, rtokens, clock, pc, loc, origin, redeems>>
    /\ UNCHANGED <<password_hash, reset_tokens>>

\* crud.py:309-316: the WHERE clause of RefreshTokenCRUD.validate
SessionRowActive(row, now) ==
    /\ row.revoked_at = NoTtl
    /\ row.expires_at > now

\* crud.py:306-330: RefreshTokenCRUD.validate on the table rows: the first
\* active row whose hash the token verifies against, 0 if there is none
validate(rows, token, now) ==
    LET hits == {i \in 1..Len(rows) :
                    /\ SessionRowActive(rows[i], now)
                    /\ verify_password(token, rows[i].token_hash)}
    IN IF hits = {} THEN 0 ELSE CHOOSE i \in hits : \A j \in hits : i <= j

\* auth.py:208-237: POST /api/auth/refresh
RefreshSession(token) ==
    /\ LET i == validate(refresh_tokens, token, clock)
       IN IF i = 0
          THEN /\ out' = FirstPartyOut("refresh", 401, "Invalid or expired refresh token",
                                       0, token, "", 0)
               /\ UNCHANGED refresh_tokens
          ELSE /\ refresh_tokens' = [refresh_tokens EXCEPT ![i].last_used_at = clock]
               /\ out' = FirstPartyOut("refresh", 200, "", refresh_tokens[i].user_id,
                                       token, "", 0)
    /\ UNCHANGED <<clients, keys, csrf, codes, rtokens, clock, pc, loc, origin, redeems>>
    /\ UNCHANGED <<password_hash, reset_tokens>>

\* a variant of the WHERE clause that selects the tokens of every user
RevokeSelectsAnyUser(row, user_id) ==
    row.revoked_at = NoTtl

\* crud.py:350-357: the WHERE clause of RefreshTokenCRUD.revoke_all_for_user
RevokeSelects(row, user_id) ==
    /\ row.user_id = user_id
    /\ row.revoked_at = NoTtl

\* crud.py:334-369 and auth.py:240-261: POST /api/auth/revoke for the
\* authenticated user
RevokeAllSessions(user_id) ==
    /\ LET tokens == {i \in 1..Len(refresh_tokens) :
                         RevokeSelects(refresh_tokens[i], user_id)}
       IN /\ refresh_tokens' = [i \in 1..Len(refresh_tokens) |->
                                   IF i \in tokens
                                   THEN [refresh_tokens[i] EXCEPT !.revoked_at = clock]
                                   ELSE refresh_tokens[i]]
          /\ out' = FirstPartyOut("revoke", 200, "All sessions revoked successfully",
                                  user_id, 0, "", Cardinality(tokens))
    /\ UNCHANGED <<clients, keys, csrf, codes, rtokens, clock, pc, loc, origin, redeems>>
    /\ UNCHANGED <<password_hash, reset_tokens>>

\* SpecReset: the password reset endpoints, with the steps of concurrent
\* resets interleaved
NextReset ==
    \/ \E minutes \in {TickMinutes, RESET_EXPIRY_MINUTES} : Elapse(minutes)
    \/ \E u \in Users \cup {NoUser} : ForgotPassword(u)
    \/ \E p \in Procs, token \in 0..MaxResetTokens, pw \in NewPasswords :
          ResetPassword(p, token, pw)
    \/ \E p \in Procs : ResetMarkUsed(p)
    \/ \E p \in Procs : ResetUpdatePassword(p)

SpecReset == Init /\ [][NextReset]_vars

\* SpecSessions: login, refresh and revocation of the first-party sessions
NextSessions ==
    \/ \E minutes \in {TickMinutes, SESSION_EXPIRY_DAYS * 24 * 60} : Elapse(minutes)
    \/ \E u \in Users, pw \in {InitialPassword, "FirstPassword123"} : Login(u, pw)
    \/ \E token \in 0..MaxSessions : RefreshSession(token)
    \/ \E u \in Users : RevokeAllSessions(u)

SpecSessions == Init /\ [][NextSessions]_vars


(***************************************************************************)
(* Properties.                                                             *)
(***************************************************************************)
\* a well-formed code exchange by the client the code was issued to, with the
\* redirect URI stored with the code
ExchangeRequest(k, code_verifier) ==
    [grant_type |-> "authorization_code",
     client_id |-> codes[k].client_id,
     client_secret |-> ClientSecretOf[codes[k].client_id],
     code |-> k,
     redirect_uri |-> codes[k].redirect_uri,
     code_verifier |-> code_verifier,
     refresh_token |-> 0]

\* what every non-stuttering step of the token endpoint does: it answers, or it
\* moves a handler on
TokenStep == (out' # out /\ out'.ep = "token") \/ pc' # pc

IssuesNoTokens ==
    /\ out'.access_token = NoAccessToken
    /\ out'.refresh_token = 0
    /\ rtokens' = rtokens
    /\ pc' = pc

\* C1: when requests are handled one after the other, every authorization code
\* is redeemed at most once, and every request that presents an already
\* redeemed code again (same client, same redirect_uri, any verifier) gets the
\* 400 invalid-code error and no tokens.
C1_RedeemedAtMostOnce ==
    /\ [](\A k \in 1..Len(codes) : redeems[k] <= 1)
    /\ [][TokenStep => \A k \in 1..Len(codes) : redeems[k] >= 1 =>
            \A p \in Procs : \A v \in Verifiers \ {VerifierEmpty} :
                TokenRequest(p, ExchangeRequest(k, v)) =>
                    /\ out'.status = 400
                    /\ out'.detail = InvalidCodeDetail
                    /\ IssuesNoTokens]_vars

\* a code has been redeemed and a later exchange of it by its own client, before
\* its expiry, was answered with the invalid-code error
C1_Witness ==
    \E k \in 1..Len(codes) :
        /\ redeems[k] = 1
        /\ clock < codes[k].expires_at
        /\ out.ep = "token" /\ out.status = 400 /\ out.detail = InvalidCodeDetail
        /\ out.code = k /\ out.client_id = codes[k].client_id

\* C2: two token requests for the same unused, unexpired code whose select and
\* mark-used steps interleave do not both obtain tokens.
C2_ConcurrentRedemptionOnce ==
    \A k \in 1..Len(codes) : redeems[k] < 2

\* two handlers have both selected the same unused code and neither has yet
\* marked it used
C2_Witness ==
    \E p, q \in Procs :
        /\ p # q
        /\ pc[p] = "mark_used" /\ pc[q] = "mark_used"
        /\ loc[p].code = loc[q].code
        /\ ~codes[loc[p].code].is_used


\* C3: when requests are handled one after the other, a validate_and_consume
\* call that returns the data leaves no pending authorization under its token,
\* a consumed token never becomes valid again, no later call reads data under
\* it, and every consent POST that presents it is redirected with
\* error=access_denied and creates no code.
C3_CsrfTokenOneTimeUse ==
    /\ [][\A p \in Procs :
            (pc[p] = "consume_delete" /\ pc'[p] = "idle") =>
                ~csrf'[loc[p].form.csrf_token].live]_vars
    /\ [][\A t \in 1..Len(csrf) : ~csrf[t].live => ~csrf'[t].live]_vars
    /\ [][\A p \in Procs :
            (pc[p] = "idle" /\ pc'[p] = "consume_delete") =>
                CsrfKeyExists(loc'[p].form.csrf_token)]_vars
    /\ [][(/\ out' # out
           /\ out'.ep = "authorize_post"
           /\ out'.csrf_token \in 1..Len(csrf)
           /\ ~csrf[out'.csrf_token].live) =>
               /\ out'.kind = "redirect"
               /\ out'.error = "access_denied"
               /\ out'.code = 0
               /\ codes' = codes]_vars

\* a pending authorization was approved (a code was minted from it) and a later
\* POST with the same CSRF token was answered with access_denied
C3_Witness ==
    \E k \in 1..Len(codes) :
        /\ out.ep = "authorize_post" /\ out.error = "access_denied"
        /\ out.csrf_token = origin[k]
        /\ ~csrf[origin[k]].live

\* C4: two approving consent submissions with the same CSRF token whose read
\* and delete steps interleave create at most one authorization code: no two
\* codes stem from the same pending authorization.
C4_OneCodePerPendingAuthorization ==
    \A i, j \in 1..Len(codes) : origin[i] = origin[j] => i = j

\* two handlers have both read the same pending authorization, with an
\* approving and matching form, and neither has deleted it yet
C4_Witness ==
    \E p, q \in Procs :
        /\ p # q
        /\ pc[p] = "consume_delete" /\ pc[q] = "consume_delete"
        /\ loc[p].form.csrf_token = loc[q].form.csrf_token
        /\ loc[p].form.approve /\ FormMatches(loc[p].data, loc[p].form)
        /\ loc[q].form.approve /\ FormMatches(loc[q].data, loc[q].form)
        /\ CsrfKeyExists(loc[p].form.csrf_token)

\* the client exists, is active and has registered the URI
TrustedRedirect(client_id, redirect_uri) ==
    \E i \in get_by_client_id(client_id) :
        /\ clients[i].is_active
        /\ redirect_uri \in SeqToSet(clients[i].redirect_uris)

\* C5: every redirect the authorize endpoint (GET or POST) issues to the
\* request's redirect_uri goes to a URI registered for an existing, active
\* client with the request's client_id.
C5_RedirectOnlyToTrustedUri ==
    (out.ep \in {"authorize_get", "authorize_post"} /\ out.kind = "redirect")
        => TrustedRedirect(out.client_id, out.location)

\* the endpoint has redirected to a URI while no client with the request's
\* client_id is registered at all
C5_Witness ==
    /\ out.ep \in {"authorize_get", "authorize_post"}
    /\ out.kind = "redirect"
    /\ get_by_client_id(out.client_id) = {}


\* BASE64URL-without-padding(SHA256(verifier)) of the ASCII verifiers, as
\* computed with RFC 7636's definition (Verifier1 is the RFC's example)
S256Challenge(code_verifier) ==
    CASE code_verifier = Verifier1 -> Challenge1
      [] code_verifier = Verifier2 -> "sVAV7WDnikWiUmC3DQSVApyrqfBdlEDoPgOb4fKt3tE"
      [] code_verifier = VerifierEmpty -> ChallengeOfEmpty

AsciiVerifiers == {v \in Verifiers : IsAscii(v)}

\* the code is unused, unexpired, and stored with method S256
ValidS256Code(k) ==
    /\ codes[k].code_challenge_method = "S256"
    /\ ~codes[k].is_used
    /\ codes[k].expires_at > clock

Succeeds ==
    /\ out'.ep = "token"
    /\ out'.status = 200
    /\ out'.access_token # NoAccessToken
    /\ out'.refresh_token # 0

\* C6: for every S256 code and every (non-empty, ASCII) code_verifier, the
\* exchange of the valid code by its authenticated client with its redirect_uri
\* succeeds if and only if BASE64URL-nopad(SHA256(code_verifier)) equals the
\* stored code_challenge: the request is taken on to the PKCE check, and the
\* exchange then succeeds exactly when the two are equal.
C6_SucceedsIffChallengeMatches ==
    /\ [][TokenStep => \A k \in 1..Len(codes) :
            \A v \in AsciiVerifiers \ {VerifierEmpty} :
            ValidS256Code(k) =>
                \A p \in Procs :
                    TokenRequest(p, ExchangeRequest(k, v)) => pc'[p] = "mark_used"]_vars
    /\ [][\A p \in Procs :
            (/\ pc[p] = "mark_used" /\ pc'[p] = "idle"
             /\ codes[loc[p].code].code_challenge_method = "S256"
             /\ IsAscii(loc[p].code_verifier)) =>
                (Succeeds <=> S256Challenge(loc[p].code_verifier)
                                  = codes[loc[p].code].code_challenge)]_vars

\* the exchange of a code passed the PKCE check (the verifier matched the stored
\* challenge), was answered 500 for want of the private key file, and has left
\* the code used
C6_Witness ==
    \E k \in 1..Len(codes) :
        /\ codes[k].code_challenge_method = "S256"
        /\ out.ep = "token" /\ out.code = k
        /\ out.status = 500 /\ out.detail = "FileNotFoundError"
        /\ codes[k].is_used
        /\ redeems[k] = 0

\* What the PKCE check itself guarantees: while the private key file exists,
\* the exchange that reaches the check succeeds exactly when
\* BASE64URL-nopad(SHA256(code_verifier)) equals the stored code_challenge.
PkceDecidesWhileKeyExists ==
    [][\A p \in Procs :
          (/\ pc[p] = "mark_used" /\ pc'[p] = "idle"
           /\ codes[loc[p].code].code_challenge_method = "S256"
           /\ IsAscii(loc[p].code_verifier)
           /\ PrivateKeyExists) =>
              (Succeeds <=> S256Challenge(loc[p].code_verifier)
                                = codes[loc[p].code].code_challenge)]_vars

InvalidCode ==
    /\ out'.ep = "token"
    /\ out'.status = 400
    /\ out'.detail = InvalidCodeDetail

\* the registered, active clients
ActiveClients == {clients[i].client_id : i \in {n \in 1..Len(clients) : clients[n].is_active}}

\* C7: a code is redeemed only by the client it was issued to: every exchange
\* that is let through to the mark-used step, and every 200 response, is for
\* the code's own client, and a well-formed request for the code by another
\* registered, active client, authenticated with its own secret, gets the 400
\* invalid-code error and no tokens.
C7_RedeemableOnlyByItsClient ==
    /\ [](\A p \in Procs :
            pc[p] = "mark_used" => loc[p].client_id = codes[loc[p].code].client_id)
    /\ []((out.ep = "token" /\ out.status = 200 /\ out.code # 0) =>
              out.client_id = codes[out.code].client_id)
    /\ [][TokenStep => \A k \in 1..Len(codes) :
            \A c \in ActiveClients \ {codes[k].client_id} :
            \A v \in Verifiers \ {VerifierEmpty} : \A u \in Uris : \A p \in Procs :
                TokenRequest(p, [ExchangeRequest(k, v) EXCEPT
                                    !.client_id = c,
                                    !.client_secret = ClientSecretOf[c],
                                    !.redirect_uri = u]) =>
                    InvalidCode /\ IssuesNoTokens]_vars

\* an unused, unexpired code was presented with its redirect_uri by a client
\* other than its own and refused as invalid
C7_Witness ==
    \E k \in 1..Len(codes) :
        /\ out.ep = "token" /\ out.status = 400 /\ out.detail = InvalidCodeDetail
        /\ out.code = k
        /\ out.client_id \in ActiveClients \ {codes[k].client_id}
        /\ out.redirect_uri = codes[k].redirect_uri
        /\ ~codes[k].is_used /\ codes[k].expires_at > clock

\* C8: a code exchange goes through only with the redirect_uri stored with the
\* code: every exchange let through to the mark-used step carries exactly that
\* string, and a request with any other value (one differing by a trailing
\* slash included) gets the 400 invalid-code error and no tokens.
C8_RedirectUriStringIdentical ==
    /\ [](\A p \in Procs :
            pc[p] = "mark_used" => loc[p].redirect_uri = codes[loc[p].code].redirect_uri)
    /\ []((out.ep = "token" /\ out.status = 200 /\ out.code # 0) =>
              out.redirect_uri = codes[out.code].redirect_uri)
    /\ [][TokenStep => \A k \in 1..Len(codes) :
            \A u \in Uris \ {codes[k].redirect_uri} :
            \A v \in Verifiers \ {VerifierEmpty} : \A p \in Procs :
                TokenRequest(p, [ExchangeRequest(k, v) EXCEPT !.redirect_uri = u]) =>
                    InvalidCode /\ IssuesNoTokens]_vars

\* an unused, unexpired code was presented by its own client with the stored
\* redirect_uri plus a trailing slash and refused as invalid
C8_Witness ==
    \E k \in 1..Len(codes) :
        /\ out.ep = "token" /\ out.status = 400 /\ out.detail = InvalidCodeDetail
        /\ out.code = k
        /\ out.client_id = codes[k].client_id
        /\ codes[k].redirect_uri = CallbackUri
        /\ out.redirect_uri = CallbackSlashUri
        /\ ~codes[k].is_used /\ codes[k].expires_at > clock

\* C9: every authorization code expires 10 minutes after its creation, and a
\* well-formed exchange by its own client at or after the expiry time gets the
\* 400 invalid-code error and no tokens, whether or not the code was used.
C9_DeadAfterTenMinutes ==
    /\ [](\A k \in 1..Len(codes) : codes[k].expires_at = codes[k].created_at + 10)
    /\ [][TokenStep => \A k \in 1..Len(codes) : clock >= codes[k].expires_at =>
            \A v \in Verifiers \ {VerifierEmpty} : \A p \in Procs :
                TokenRequest(p, ExchangeRequest(k, v)) =>
                    InvalidCode /\ IssuesNoTokens]_vars

\* a code that was never used was presented by its own client with its
\* redirect_uri exactly at its expiry time and refused as invalid
C9_Witness ==
    \E k \in 1..Len(codes) :
        /\ out.ep = "token" /\ out.status = 400 /\ out.detail = InvalidCodeDetail
        /\ out.code = k
        /\ out.client_id = codes[k].client_id
        /\ out.redirect_uri = codes[k].redirect_uri
        /\ ~codes[k].is_used
        /\ clock = codes[k].expires_at

\* a refresh request of client c presenting token t
RefreshRequest(c, t) ==
    [grant_type |-> "refresh_token", client_id |-> c,
     client_secret |-> ClientSecretOf[c], code |-> 0, redirect_uri |-> "",
     code_verifier |-> VerifierEmpty, refresh_token |-> t]

\* C10: a refresh_token grant leaves the refresh-token store as it is and, when
\* it succeeds, returns the token that was presented; a request by the token's
\* client with an active, unexpired token succeeds, however many refreshes
\* went before.
C10_RefreshDoesNotRotate ==
    [][TokenStep => \A c \in ClientIds : \A t \in 1..MaxRefresh : \A p \in Procs :
          TokenRequest(p, RefreshRequest(c, t)) =>
              /\ rtokens' = rtokens
              /\ out'.status = 200 => out'.refresh_token = t
              /\ (/\ t \in 1..Len(rtokens)
                  /\ rtokens[t].client_id = c
                  /\ rtokens[t].is_active
                  /\ rtokens[t].expires_at > clock) =>
                     /\ out'.status = 200
                     /\ out'.access_token # NoAccessToken
                     /\ out'.refresh_token = t]_vars

\* a refresh token was presented by its client and the response carries the
\* same token, which is still active in the store
C10_Witness ==
    \E t \in 1..Len(rtokens) :
        /\ out.ep = "token" /\ out.grant_type = "refresh_token"
        /\ out.status = 200
        /\ out.presented = t /\ out.refresh_token = t
        /\ out.client_id = rtokens[t].client_id
        /\ rtokens[t].is_active


InvalidRefresh ==
    /\ out'.ep = "token"
    /\ out'.status = 400
    /\ out'.detail = InvalidRefreshDetail

\* C11: revoke leaves the token inactive, no step makes an inactive refresh
\* token active again, and every refresh_token grant that presents a revoked
\* token, by whichever registered client, gets the 400 invalid-refresh-token
\* error and no tokens.
C11_RevokedTokenStaysDead ==
    /\ [][\A t \in 1..Len(rtokens) : Revoke(t) => ~rtokens'[t].is_active]_vars
    /\ [][\A t \in 1..Len(rtokens) :
            ~rtokens[t].is_active =>
                (Len(rtokens') >= t /\ ~rtokens'[t].is_active)]_vars
    /\ [][TokenStep => \A t \in 1..Len(rtokens) : ~rtokens[t].is_active =>
            \A c \in ActiveClients : \A p \in Procs :
                TokenRequest(p, RefreshRequest(c, t)) =>
                    InvalidRefresh /\ IssuesNoTokens]_vars

\* an unexpired refresh token was revoked and then presented by its own client,
\* and the grant was refused as invalid
C11_Witness ==
    \E t \in 1..Len(rtokens) :
        /\ ~rtokens[t].is_active
        /\ rtokens[t].revoked_at # NoTtl
        /\ rtokens[t].expires_at > clock
        /\ out.ep = "token" /\ out.grant_type = "refresh_token"
        /\ out.status = 400 /\ out.detail = InvalidRefreshDetail
        /\ out.presented = t
        /\ out.client_id = rtokens[t].client_id


\* C12: a refresh_token grant succeeds only for a token that exists, is
\* active, is unexpired at request time and is stored with the authenticated
\* client's id; presented by another registered client, or at or after its
\* expiry, the token gets the 400 invalid-refresh-token error and no tokens.
C12_RefreshBoundToClientWhileValid ==
    /\ [][(out' # out /\ out'.ep = "token" /\ out'.status = 200) =>
            \A c \in ClientIds : \A t \in 0..MaxRefresh : \A p \in Procs :
            TokenRequest(p, RefreshRequest(c, t)) =>
                /\ t \in 1..Len(rtokens)
                /\ rtokens[t].is_active
                /\ rtokens[t].expires_at > clock
                /\ rtokens[t].client_id = c
                /\ c \in ActiveClients]_vars
    /\ [][TokenStep => \A t \in 1..Len(rtokens) :
            \A c \in ActiveClients : \A p \in Procs :
                (/\ c # rtokens[t].client_id \/ clock >= rtokens[t].expires_at
                 /\ TokenRequest(p, RefreshRequest(c, t))) =>
                    InvalidRefresh /\ IssuesNoTokens]_vars

\* an active, unexpired refresh token was presented by a registered client
\* other than its own and refused as invalid
C12_Witness ==
    \E t \in 1..Len(rtokens) :
        /\ rtokens[t].is_active
        /\ rtokens[t].expires_at > clock
        /\ out.ep = "token" /\ out.grant_type = "refresh_token"
        /\ out.status = 400 /\ out.detail = InvalidRefreshDetail
        /\ out.presented = t
        /\ out.client_id \in ActiveClients \ {rtokens[t].client_id}

\* an active refresh token was presented by its own client exactly at its
\* expiry time and refused as invalid
RefreshRefusedAtExpiry ==
    \E t \in 1..Len(rtokens) :
        /\ rtokens[t].is_active
        /\ rtokens[t].expires_at = clock
        /\ out.ep = "token" /\ out.grant_type = "refresh_token"
        /\ out.status = 400 /\ out.detail = InvalidRefreshDetail
        /\ out.presented = t
        /\ out.client_id = rtokens[t].client_id


\* the requests of the token endpoint whose credentials do not authenticate
Unauthenticated ==
    {req \in TokenRequests :
        \A i \in 1..Len(clients) :
            \/ clients[i].client_id # req.client_id
            \/ ~clients[i].is_active
            \/ clients[i].client_secret # req.client_secret}

\* C13: the token endpoint authenticates the client first: whatever the
\* grant_type and the other parameters, a request whose client_id and
\* client_secret do not authenticate is answered, the answer is 401, and it
\* marks no authorization code used, creates no refresh token and starts no
\* exchange.
C13_AuthenticatesClientFirst ==
    Quiet =>
        \A req \in Unauthenticated :
            /\ ENABLED TokenRequest(Worker, req)
            /\ ~ENABLED (/\ TokenRequest(Worker, req)
                         /\ ~(/\ out'.status = 401
                              /\ out'.access_token = NoAccessToken
                              /\ out'.refresh_token = 0
                              /\ codes' = codes
                              /\ rtokens' = rtokens
                              /\ pc' = pc))

\* an exchange of an unused, unexpired code was just refused with 401 while a
\* client is registered (the secret was wrong), and the code is still unused
C13_Witness ==
    /\ out.ep = "token" /\ out.status = 401
    /\ out.grant_type = "authorization_code"
    /\ \E k \in 1..Len(codes) : ~codes[k].is_used /\ codes[k].expires_at > clock
    /\ PrivateKeyExists


\* C14: the token endpoint grants an authorization_code or refresh_token
\* exchange only to a client whose registered grant_types contain that grant
\* type, and only with a scope inside the scopes the client registered.
C14_OnlyRegisteredGrantTypes ==
    (out.ep = "token" /\ out.status = 200) =>
        \A i \in get_by_client_id(out.client_id) :
            /\ out.grant_type \in clients[i].grant_types
            /\ SplitScope(out.scope) \subseteq clients[i].allowed_scopes


\* the checks of GET /oauth/authorize read off the client registry
RegisteredActive(client_id) ==
    \E i \in 1..Len(clients) : clients[i].client_id = client_id /\ clients[i].is_active

RegisteredUri(client_id, redirect_uri) ==
    \E i \in 1..Len(clients) :
        clients[i].client_id = client_id /\ redirect_uri \in clients[i].redirect_uris

ScopeAllowed(client_id, scope) ==
    \E i \in 1..Len(clients) :
        /\ clients[i].client_id = client_id
        /\ SplitScope(scope) \subseteq clients[i].allowed_scopes

\* the first check of the fixed order that the request fails (7: none)
FirstFailingCheck(req) ==
    IF ~ValidAuthorizationRequest(req) THEN 1
    ELSE IF req.response_type # "code" THEN 2
    ELSE IF ~RegisteredActive(req.client_id) THEN 3
    ELSE IF ~RegisteredUri(req.client_id, req.redirect_uri) THEN 4
    ELSE IF ~ScopeAllowed(req.client_id, req.scope) THEN 5
    ELSE IF req.user_id = NoUser THEN 6
    ELSE 7

GetAnswers(status, kind, error) ==
    /\ out'.ep = "authorize_get"
    /\ out'.status = status
    /\ out'.kind = kind
    /\ out'.error = error
    /\ pc' = pc

\* the response of the n-th check failing; for n = 7 the handler goes on to
\* cache the pending authorization
AnswerOfCheck(n) ==
    CASE n = 1 -> GetAnswers(400, "error_page", "invalid_request")
      [] n = 2 -> GetAnswers(303, "redirect", "unsupported_response_type")
      [] n = 3 -> GetAnswers(400, "error_page", "invalid_client")
      [] n = 4 -> GetAnswers(400, "error_page", "invalid_redirect_uri")
      [] n = 5 -> GetAnswers(303, "redirect", "invalid_scope")
      [] n = 6 -> GetAnswers(303, "login", "")
      [] n = 7 -> pc'[Worker] = "generate_token_expire" /\ out' = out

\* C15: GET /oauth/authorize applies its checks in the order malformed
\* parameters, response_type, client registered and active, redirect_uri
\* registered, scope allowed, requester authenticated: every request is
\* answered with the response of the first check it fails, whatever later
\* checks it fails too.
C15_FirstFailingCheckAnswers ==
    Quiet =>
        \A req \in AuthorizeGetRequests :
            /\ FirstFailingCheck(req) < 7 => ENABLED AuthorizeGet(Worker, req)
            /\ ~ENABLED (/\ AuthorizeGet(Worker, req)
                         /\ ~AnswerOfCheck(FirstFailingCheck(req)))

\* a request for another response type was just redirected with
\* unsupported_response_type although its client is not registered either
C15_Witness ==
    /\ out.ep = "authorize_get" /\ out.kind = "redirect"
    /\ out.error = "unsupported_response_type"
    /\ ~RegisteredActive(out.client_id)
    /\ clients # <<>>


\* the well-formed requests for a code of a registered, active client with a
\* registered redirect_uri
TrustedGetRequests ==
    {req \in AuthorizeGetRequests :
        /\ ValidAuthorizationRequest(req)
        /\ req.response_type = "code"
        /\ RegisteredActive(req.client_id)
        /\ RegisteredUri(req.client_id, req.redirect_uri)}

\* C16: a well-formed GET /oauth/authorize for a code, of a registered active
\* client with a registered redirect_uri, whose scope tokens are not all among
\* the client's allowed scopes is answered with a 303 redirect to that
\* redirect_uri carrying error=invalid_scope and the request's state, and
\* creates no pending-authorization entry, whether or not the requester is
\* authenticated.
C16_InvalidScopeRedirects ==
    Quiet =>
        \A req \in TrustedGetRequests :
            ~ScopeAllowed(req.client_id, req.scope) =>
                /\ ENABLED AuthorizeGet(Worker, req)
                /\ ~ENABLED (/\ AuthorizeGet(Worker, req)
                             /\ ~(/\ out'.ep = "authorize_get"
                                  /\ out'.status = 303
                                  /\ out'.kind = "redirect"
                                  /\ out'.location = req.redirect_uri
                                  /\ out'.error = "invalid_scope"
                                  /\ out'.state = req.state
                                  /\ out'.code = 0
                                  /\ csrf' = csrf
                                  /\ codes' = codes
                                  /\ pc' = pc))

\* a request was just redirected to a registered redirect_uri of its registered
\* client with error=invalid_scope, and the cache holds no entry
C16_Witness ==
    /\ out.ep = "authorize_get" /\ out.status = 303
    /\ out.error = "invalid_scope" /\ out.state = "s1"
    /\ RegisteredActive(out.client_id)
    /\ RegisteredUri(out.client_id, out.location)
    /\ csrf = <<>>

\* C17: a GET /oauth/authorize that passes every validation step but comes
\* from an unauthenticated requester is answered with a 303 redirect to the
\* login page; no GET that fails a check (validation or authentication)
\* creates a pending-authorization entry, and no step of a GET, whatever its
\* outcome, creates an authorization code.
C17_LoginRedirectCreatesNothing ==
    /\ Quiet =>
          \A req \in AuthorizeGetRequests :
              /\ FirstFailingCheck(req) = 6 =>
                    /\ ENABLED AuthorizeGet(Worker, req)
                    /\ ~ENABLED (/\ AuthorizeGet(Worker, req)
                                 /\ ~(/\ out'.ep = "authorize_get"
                                      /\ out'.status = 303
                                      /\ out'.kind = "login"
                                      /\ out'.location = "/api/auth/login"
                                      /\ out'.code = 0
                                      /\ pc' = pc))
              /\ FirstFailingCheck(req) < 7 =>
                    ~ENABLED (AuthorizeGet(Worker, req) /\ csrf' # csrf)
              /\ ~ENABLED (AuthorizeGet(Worker, req) /\ codes' # codes)
    /\ \A p \in Procs : ~ENABLED (GenerateTokenExpire(p) /\ codes' # codes)

\* an unauthenticated request was just sent to the login page while a client
\* is registered, and neither a cache entry nor a code exists
C17_Witness ==
    /\ out.ep = "authorize_get" /\ out.status = 303 /\ out.kind = "login"
    /\ clients # <<>>
    /\ csrf = <<>>
    /\ codes = <<>>


\* handler p answers a consent POST whose CSRF token was found in the cache
AnswersConsent(p) ==
    pc[p] = "consume_delete" /\ pc'[p] = "idle"

ConsentFormMatches(p) ==
    \A x \in ConsentFields : loc[p].form[x] = loc[p].data[x]

AccessDenied ==
    /\ out'.ep = "authorize_post"
    /\ out'.status = 303
    /\ out'.kind = "redirect"
    /\ out'.error = "access_denied"
    /\ out'.code = 0

\* C18: a consent POST whose CSRF token is found and in which any of
\* client_id, redirect_uri, scope, state, code_challenge or
\* code_challenge_method differs from the value cached at GET time is answered
\* with a redirect carrying error=access_denied and creates no authorization
\* code, whether approve is true or false.
C18_MismatchIsDenied ==
    [][\A p \in Procs :
          (AnswersConsent(p) /\ ~ConsentFormMatches(p)) =>
              AccessDenied /\ codes' = codes]_vars

\* an approving POST whose token was found and consumed was just refused
\* because a field differed, and no code exists
C18_Witness ==
    /\ out.ep = "authorize_post"
    /\ out.error = "access_denied"
    /\ out.error_description = "CSRF validation failed"
    /\ out.approve
    /\ csrf[out.csrf_token] = Gone
    /\ codes = <<>>

\* C19: a consent POST with approve=false, a found CSRF token and fields that
\* all match the cached ones is redirected with error=access_denied and the
\* state of the original request, and creates no authorization code; the only
\* step that creates an authorization code is the answer to a consent POST with
\* approve=true.
C19_DenialCreatesNoCode ==
    /\ [][\A p \in Procs :
            (AnswersConsent(p) /\ ConsentFormMatches(p) /\ ~loc[p].form.approve) =>
                /\ AccessDenied
                /\ out'.state = loc[p].data.state
                /\ codes' = codes]_vars
    /\ [][Len(codes') # Len(codes) =>
            /\ Len(codes') = Len(codes) + 1
            /\ \E p \in Procs : AnswersConsent(p) /\ loc[p].form.approve
            /\ out'.ep = "authorize_post"
            /\ out'.approve]_vars

\* a denying POST with the rendered form was just redirected with
\* access_denied and the original state; its token is consumed and no code exists
C19_Witness ==
    /\ out.ep = "authorize_post"
    /\ out.error = "access_denied"
    /\ out.error_description = "User denied authorization"
    /\ ~out.approve
    /\ out.state = "s1"
    /\ csrf[out.csrf_token] = Gone
    /\ codes = <<>>

\* C20: the answer to an approved consent POST with matching fields creates
\* one authorization code that is unused and carries the user id, client_id,
\* redirect_uri, scope, PKCE challenge and method cached at GET time, and it
\* redirects to the cached redirect_uri with that code and the original state.
C20_CodeBoundToPendingAuthorization ==
    [][\A p \in Procs :
          (AnswersConsent(p) /\ ConsentFormMatches(p) /\ loc[p].form.approve) =>
              /\ Len(codes') = Len(codes) + 1
              /\ LET auth_code == codes'[Len(codes')]
                     data == loc[p].data
                 IN /\ ~auth_code.is_used
                    /\ auth_code.user_id = data.user_id
                    /\ auth_code.client_id = data.client_id
                    /\ auth_code.redirect_uri = data.redirect_uri
                    /\ auth_code.scope = data.scope
                    /\ auth_code.code_challenge = data.code_challenge
                    /\ auth_code.code_challenge_method = data.code_challenge_method
                    /\ out'.ep = "authorize_post"
                    /\ out'.status = 303
                    /\ out'.kind = "redirect"
                    /\ out'.error = ""
                    /\ out'.location = data.redirect_uri
                    /\ out'.code = Len(codes')
                    /\ out'.state = data.state]_vars

\* user 2's approval was just answered with a redirect carrying the new,
\* unused code bound to user 2
C20_Witness ==
    /\ out.ep = "authorize_post"
    /\ out.approve
    /\ out.code = Len(codes)
    /\ out.code >= 1
    /\ ~codes[out.code].is_used
    /\ codes[out.code].user_id = 2
    /\ out.location = codes[out.code].redirect_uri


\* handler p answers a code exchange whose code row it has fetched
AnswersExchange(p) ==
    pc[p] = "mark_used" /\ pc'[p] = "idle"

\* C21: a successful code exchange issues an access token whose sub,
\* client_id and scope are the redeemed code's user id, client id and scope,
\* appends exactly one refresh token, active and for the same user, client
\* and scope, and answers with that refresh token, token_type Bearer,
\* expires_in 3600 and the code's scope.
C21_ExchangeIssuesTokensOfTheCode ==
    [][\A p \in Procs :
          (AnswersExchange(p) /\ out'.status = 200) =>
              LET auth_code == codes[loc[p].code]
                  new == rtokens'[Len(rtokens')]
              IN /\ out'.ep = "token"
                 /\ out'.access_token.sub = auth_code.user_id
                 /\ out'.access_token.client_id = auth_code.client_id
                 /\ out'.access_token.scope = auth_code.scope
                 /\ Len(rtokens') = Len(rtokens) + 1
                 /\ SubSeq(rtokens', 1, Len(rtokens)) = rtokens
                 /\ new.is_active
                 /\ new.user_id = auth_code.user_id
                 /\ new.client_id = auth_code.client_id
                 /\ new.scope = auth_code.scope
                 /\ out'.refresh_token = Len(rtokens')
                 /\ out'.token_type = "Bearer"
                 /\ out'.expires_in = EXPIRES_IN
                 /\ out'.scope = auth_code.scope]_vars

\* the code of user 2 was just exchanged: the response carries an access
\* token for user 2 and the one refresh token there is
C21_Witness ==
    /\ out.ep = "token" /\ out.status = 200
    /\ out.grant_type = "authorization_code"
    /\ codes[out.code].is_used
    /\ codes[out.code].user_id = 2
    /\ out.access_token.sub = 2
    /\ out.refresh_token = 1
    /\ Len(rtokens) = 1


\* C22: a verifier accepts a token if and only if its signature matches the
\* current public key, its exp is in the future and its aud and iss are the
\* configured ones; in particular a token of another issuer is rejected.
C22_VerifiesIffSignedFreshAndOurs ==
    out.ep \in {"decode_access_token", "verify_bearer_token"} =>
        (out.ok <=> /\ out.key # 0
                    /\ out.token.key = out.key
                    /\ out.token.exp > out.now
                    /\ out.token.aud = Audience
                    /\ out.token.iss = Issuer)

\* the verifier of the MCP server alone does what C22 says
VerifyBearerTokenIffSignedFreshAndOurs ==
    out.ep = "verify_bearer_token" =>
        (out.ok <=> /\ out.key # 0
                    /\ out.token.key = out.key
                    /\ out.token.exp > out.now
                    /\ out.token.aud = Audience
                    /\ out.token.iss = Issuer)


\* the registrations that ask for something outside the fixed allow-lists
OutsideAllowLists ==
    {req \in RegisterRequests :
        \/ \E i \in 1..Len(req.grant_types) :
              req.grant_types[i] \notin {"authorization_code", "refresh_token"}
        \/ \E i \in 1..Len(req.response_types) : req.response_types[i] # "code"
        \/ SplitScope(req.scope) \ {"tasks:read", "tasks:write", "openid", "profile",
                                     "email"} # {}}

\* C23: POST /oauth/register answers 400 to every request that contains a
\* grant type outside {authorization_code, refresh_token}, a response type
\* outside {code} or a scope token outside {tasks:read, tasks:write, openid,
\* profile, email}, and such a request leaves the client registry unchanged.
C23_RegistrationOutsideAllowListsRejected ==
    \A req \in OutsideAllowLists :
        /\ ENABLED Register(req)
        /\ ~ENABLED (/\ Register(req)
                     /\ ~(/\ out'.ep = "register"
                          /\ out'.status = 400
                          /\ out'.client_id = ""
                          /\ out'.client_secret = ""
                          /\ clients' = clients))

\* a registration was just refused for its scope with a client registered
\* before it, and the registry still holds that one client
C23_Witness ==
    /\ out.ep = "register" /\ out.status = 400
    /\ out.detail = "Invalid scopes"
    /\ Len(clients) = 1


\* the strings of the last response, the client_secret field of a
\* registration response apart
ResponseStrings ==
    CASE out.ep = "register" -> {out.detail, out.client_id}
      [] out.ep \in {"authorize_get", "authorize_post"} ->
            {out.kind, out.client_id, out.location, out.error,
             out.error_description, out.state}
      [] out.ep = "token" ->
            {out.grant_type, out.client_id, out.redirect_uri, out.detail,
             out.token_type, out.scope, out.access_token.client_id,
             out.access_token.scope, out.access_token.iss, out.access_token.aud}
      [] out.ep = "discovery" ->
            {out.issuer} \cup out.response_types_supported
                \cup out.grant_types_supported
                \cup out.token_endpoint_auth_methods_supported
                \cup out.scopes_supported \cup out.code_challenge_methods_supported
      [] out.ep \in {"jwks", "ensure_keys_exist"} -> {out.detail}
      [] OTHER -> {}

\* C24: the secret of a registered client appears in no response but the one
\* of the registration that created that client: not in a response of
\* authorize GET or POST, token, discovery or JWKS, and in a registration
\* response only as the secret of the client that response announces.
C24_SecretOnlyInItsRegistrationResponse ==
    /\ \A i \in 1..Len(clients) : clients[i].client_secret \notin ResponseStrings
    /\ (out.ep = "register" /\ out.client_secret # "") =>
          \A i \in 1..Len(clients) :
              clients[i].client_secret = out.client_secret
                  <=> clients[i].client_id = out.client_id

\* with two clients registered, an authenticated request for an unsupported
\* grant type was just refused
C24_Witness ==
    /\ Len(clients) = 2
    /\ out.ep = "token" /\ out.status = 400
    /\ out.grant_type = "password"


\* C25: a code exchange that fails after the code row was fetched because the
\* access token cannot be signed (the private key file is absent) leaves no
\* partial state: the code is not left marked used.
C25_FailedSigningLeavesCodeUnused ==
    (/\ out.ep = "token"
     /\ out.grant_type = "authorization_code"
     /\ out.status = 500
     /\ out.detail = "FileNotFoundError") =>
        /\ out.code \in 1..Len(codes)
        /\ ~codes[out.code].is_used


\* what the token endpoint sends back, without the echo of the request
ResponseOf(o) ==
    [status |-> o.status, detail |-> o.detail, access_token |-> o.access_token,
     token_type |-> o.token_type, expires_in |-> o.expires_in,
     refresh_token |-> o.refresh_token, scope |-> o.scope]

\* the complete exchange requests of authenticated clients
AuthenticatedExchanges ==
    {req \in TokenRequests :
        /\ req.grant_type = "authorization_code"
        /\ req.client_id \in ActiveClients
        /\ req.client_secret = ClientSecretOf[req.client_id]
        /\ req.code # 0
        /\ req.redirect_uri # ""
        /\ req.code_verifier # ""}

\* the causes that make a presented code invalid
CodeUnknown(req) == req.code \notin 1..Len(codes)
CodeOfAnotherClient(req) ==
    req.code \in 1..Len(codes) /\ codes[req.code].client_id # req.client_id
CodeForAnotherRedirectUri(req) ==
    req.code \in 1..Len(codes) /\ codes[req.code].redirect_uri # req.redirect_uri
CodeAlreadyUsed(req) == req.code \in 1..Len(codes) /\ codes[req.code].is_used
CodeExpired(req) == req.code \in 1..Len(codes) /\ codes[req.code].expires_at <= clock

\* C26: for an authenticated client the answer to a code exchange is the same,
\* status 400 with one fixed detail string and nothing else, whether the code
\* is unknown, belongs to another client, was issued for another
\* redirect_uri, is already used or is expired; the answer does not depend on
\* which of the causes applies, nor on how many.
C26_InvalidCodeCausesIndistinguishable ==
    Quiet =>
        \A req \in AuthenticatedExchanges :
            (\/ CodeUnknown(req) \/ CodeOfAnotherClient(req)
             \/ CodeForAnotherRedirectUri(req)
             \/ CodeAlreadyUsed(req) \/ CodeExpired(req)) =>
                /\ ENABLED TokenRequest(Worker, req)
                /\ ~ENABLED (/\ TokenRequest(Worker, req)
                             /\ ~(/\ out'.ep = "token"
                                  /\ ResponseOf(out') =
                                         [status |-> 400,
                                          detail |-> InvalidCodeDetail,
                                          access_token |-> NoAccessToken,
                                          token_type |-> "",
                                          expires_in |-> 0,
                                          refresh_token |-> 0,
                                          scope |-> ""]
                                  /\ codes' = codes
                                  /\ pc' = pc))

\* a client was just refused the unused, unexpired code of another client
\* with the answer given for a used or expired code
C26_Witness ==
    /\ out.ep = "token" /\ out.status = 400 /\ out.detail = InvalidCodeDetail
    /\ out.code \in 1..Len(codes)
    /\ out.client_id \in ActiveClients
    /\ codes[out.code].client_id # out.client_id
    /\ codes[out.code].redirect_uri = out.redirect_uri
    /\ ~codes[out.code].is_used
    /\ codes[out.code].expires_at > clock

\* the client of a code was just refused that code, presented with its
\* redirect_uri before it expired, for the sole reason that it was used before
UsedCodeRefusedAlike ==
    /\ out.ep = "token" /\ out.status = 400 /\ out.detail = InvalidCodeDetail
    /\ out.client_id \in ActiveClients
    /\ out.code \in 1..Len(codes)
    /\ codes[out.code].client_id = out.client_id
    /\ codes[out.code].redirect_uri = out.redirect_uri
    /\ codes[out.code].is_used
    /\ codes[out.code].expires_at > clock


\* C27: every pending-authorization entry of the cache carries a TTL, in
\* every reachable state, the one between the store step and the set-expiry
\* step of generate_token included.
C27_EveryEntryHasTtl ==
    \A t \in 1..Len(csrf) : csrf[t].live => csrf[t].expire_at # NoTtl


\* C28: the key pair is generated only when absent and never replaced: with
\* calls made one after the other, a persisted private key and a persisted
\* public key are never overwritten by ensure_keys_exist, JWKS, issue or
\* verify calls, a new pair is written only where a file was absent, the JWKS
\* endpoint returns the persisted public key, tokens are signed with the
\* persisted private key, and a token signed with it verifies as long as it
\* has not expired.
C28_KeyPairNeverReplaced ==
    /\ [][keys.private # 0 => keys'.private = keys.private]_vars
    /\ [][keys.public # 0 => keys'.public = keys.public]_vars
    /\ [][keys' # keys => KeyFilesMissing]_vars
    /\ [](out.ep = "jwks" => (out.key # 0 /\ out.key = keys.public))
    /\ [](out.ep = "create_access_token" /\ out.ok =>
            (out.token.key # 0 /\ out.token.key = keys.private))
    /\ []((/\ out.ep = "decode_access_token"
           /\ out.token.key # 0
           /\ out.token.key = keys.private
           /\ out.token.aud = Audience
           /\ out.token.exp > out.now) => out.ok)

\* started with no key file or with both, the calls never replace a key
KeyPairNeverReplacedFromPairOrNothing ==
    C28_KeyPairNeverReplaced

\* C29: when concurrent ensure_keys_exist calls that started with no key
\* files have all returned, the persisted public key is the public half of
\* the persisted private key.
C29_PersistedKeysMatch ==
    (Quiet /\ keys.private # 0) => keys.public = keys.private

\* C30: PKCE verification fails closed: a code exchange answers 200 only if
\* the stored code has a code_challenge and a code_challenge_method, the method
\* is S256 or plain, and, with plain, the code_verifier is the stored challenge
\* itself; otherwise it issues no refresh token.
C30_PkceFailsClosed ==
    [][\A p \in Procs :
          AnswersExchange(p) =>
             LET row == codes[loc[p].code]
                 closed == \/ row.code_challenge = ""
                           \/ row.code_challenge_method \notin {"S256", "plain"}
                           \/ /\ row.code_challenge_method = "plain"
                              /\ loc[p].code_verifier # row.code_challenge
             IN closed => (out'.status # 200 /\ rtokens' = rtokens)]_vars

\* an exchange has just been refused for a code stored with an unknown method
PkceRefusedUnknownMethod ==
    /\ out.ep = "token" /\ out.status = 400 /\ out.detail = PkceFailedDetail
    /\ codes[out.code].code_challenge_method = "S512"
    /\ codes[out.code].code_challenge = Verifier1

\* an exchange has just been refused for a code stored without a challenge
PkceRefusedMissingChallenge ==
    /\ out.ep = "token" /\ out.status = 400
    /\ out.detail = "Authorization code missing PKCE challenge"
    /\ codes[out.code].code_challenge = ""
    /\ codes[out.code].code_challenge_method = "S256"

\* a code stored with method plain and the challenge Verifier1 has just been
\* redeemed, and an earlier code stored with an unknown method is marked used
\* without a token issued for it
C30_Witness ==
    /\ out.ep = "token" /\ out.status = 200 /\ out.code = 2
    /\ codes[2].code_challenge_method = "plain"
    /\ codes[2].code_challenge = Verifier1
    /\ codes[1].code_challenge_method = "S512"
    /\ codes[1].is_used
    /\ redeems[1] = 0

\* the client_id is that of a registered, active client and the secret is its
\* stored secret
KnownActiveWithSecret(client_id, client_secret) ==
    \E i \in 1..Len(clients) :
        /\ clients[i].client_id = client_id
        /\ clients[i].is_active
        /\ clients[i].client_secret = client_secret

\* C31: client authentication fails closed: authenticate_client is true
\* exactly for a registered, active client presenting its stored secret, and
\* every token request made for an unknown or inactive client or with another
\* secret is answered 401 and changes nothing, whatever code or refresh token
\* it presents.
C31_ClientAuthenticationFailsClosed ==
    /\ \A c \in ClientIds, sec \in Secrets :
          authenticate_client(c, sec) <=> KnownActiveWithSecret(c, sec)
    /\ Quiet =>
          \A req \in TokenRequests :
              ~KnownActiveWithSecret(req.client_id, req.client_secret) =>
                 /\ ENABLED TokenRequest(Worker, req)
                 /\ ~ENABLED (/\ TokenRequest(Worker, req)
                              /\ ~(/\ out'.status = 401
                                    /\ out'.access_token = NoAccessToken
                                    /\ pc' = pc))

\* a client that redeemed its first code and holds an active refresh token and
\* an unused, unexpired second code was deactivated, and a code exchange has
\* just been answered 401
C31_Witness ==
    /\ Len(clients) = 1 /\ ~clients[1].is_active
    /\ Len(codes) = 2
    /\ codes[1].is_used /\ codes[1].client_id = clients[1].client_id
    /\ ~codes[2].is_used /\ codes[2].client_id = clients[1].client_id
    /\ codes[2].expires_at > clock
    /\ Len(rtokens) = 1 /\ rtokens[1].is_active
    /\ rtokens[1].client_id = clients[1].client_id
    /\ out.ep = "token" /\ out.status = 401 /\ out.grant_type = "authorization_code"

\* the columns of a code row that are set when it is created
CodeCreationValues(row) ==
    <<row.client_id, row.user_id, row.redirect_uri, row.scope, row.code_challenge,
      row.code_challenge_method, row.created_at, row.expires_at>>

\* C32: an authorization code is mutated at most once: no step removes a code
\* or changes its client, user, redirect_uri, scope, PKCE challenge or expiry;
\* is_used only changes from false to true, used_at is written at that
\* transition and never again, also when redemption attempts interleave.
C32_CodeMutatedAtMostOnce ==
    [][/\ Len(codes') >= Len(codes)
       /\ \A k \in 1..Len(codes) :
             /\ CodeCreationValues(codes'[k]) = CodeCreationValues(codes[k])
             /\ codes[k].is_used => (codes'[k].is_used /\ codes'[k].used_at = codes[k].used_at)
             /\ ~codes[k].is_used =>
                   IF codes'[k].is_used
                   THEN codes'[k].used_at = clock
                   ELSE codes'[k].used_at = NoTtl]_vars

\* handled one after the other, redemptions mutate a code at most once
CodeMutatedAtMostOnceInSequence ==
    C32_CodeMutatedAtMostOnce

\* C33: for an authenticated client, a token request with a grant type other
\* than authorization_code and refresh_token is answered 400 "Unsupported
\* grant type", whatever else it carries, and changes neither the
\* authorization codes nor the refresh tokens.
C33_UnsupportedGrantTypeRejected ==
    Quiet =>
       \A req \in OtherGrantRequests :
           authenticate_client(req.client_id, req.client_secret) =>
              /\ ENABLED TokenRequest(Worker, req)
              /\ ~ENABLED (/\ TokenRequest(Worker, req)
                           /\ ~(/\ out'.status = 400
                                 /\ out'.detail = "Unsupported grant type: " \o req.grant_type
                                 /\ out'.access_token = NoAccessToken
                                 /\ codes' = codes
                                 /\ rtokens' = rtokens
                                 /\ pc' = pc))

\* an unsupported grant type has just been refused while an active client held
\* an unused, unexpired code and an active refresh token
C33_Witness ==
    /\ out.ep = "token" /\ out.status = 400
    /\ out.detail = "Unsupported grant type: password"
    /\ \E i \in 1..Len(clients) :
          /\ clients[i].is_active
          /\ \E k \in 1..Len(codes) :
                /\ codes[k].client_id = clients[i].client_id
                /\ ~codes[k].is_used /\ codes[k].expires_at > clock
          /\ \E t \in 1..Len(rtokens) :
                rtokens[t].client_id = clients[i].client_id /\ rtokens[t].is_active

\* the token was stored by forgot-password and a reset has marked it used
ResetTokenUsed(token) ==
    \E i \in 1..Len(reset_tokens) :
        /\ verify_password(token, reset_tokens[i].token_hash)
        /\ reset_tokens[i].used_at # NoTtl

\* the token was stored by forgot-password and its hour has passed
ResetTokenExpired(token) ==
    \E i \in 1..Len(reset_tokens) :
        /\ verify_password(token, reset_tokens[i].token_hash)
        /\ reset_tokens[i].expires_at <= clock

\* C34: a password reset token is used at most once: a reset-password request
\* made with a token that an earlier request has used, or with an expired
\* token, is answered 400 and leaves every password as it was.
C34_ResetTokenUsedAtMostOnce ==
    \A p \in Procs :
        pc[p] = "idle" =>
           \A token \in 1..MaxResetTokens, new_password \in NewPasswords :
               (ResetTokenUsed(token) \/ ResetTokenExpired(token)) =>
                  /\ ENABLED ResetPassword(p, token, new_password)
                  /\ ~ENABLED (/\ ResetPassword(p, token, new_password)
                               /\ ~(/\ out'.status = 400
                                     /\ pc' = pc
                                     /\ password_hash' = password_hash
                                     /\ reset_tokens' = reset_tokens))

\* the first reset with token 1 set the first new password; a later reset
\* with the same, unexpired token and another password has just been refused
C34_Witness ==
    /\ Quiet
    /\ out.ep = "reset_password" /\ out.status = 400
    /\ out.token = 1 /\ out.password = "SecondPassword123"
    /\ Len(reset_tokens) >= 1
    /\ reset_tokens[1].used_at # NoTtl
    /\ reset_tokens[1].expires_at > clock
    /\ password_hash[reset_tokens[1].user_id] = hash_password("FirstPassword123")

\* a reset with an expired, unused token has just been refused
ExpiredResetTokenRefused ==
    /\ out.ep = "reset_password" /\ out.status = 400 /\ out.token = 1
    /\ Len(reset_tokens) >= 1
    /\ reset_tokens[1].used_at = NoTtl
    /\ reset_tokens[1].expires_at <= clock
    /\ password_hash[reset_tokens[1].user_id] = hash_password(InitialPassword)

\* the rows of the refresh tokens table a token string was stored in
SessionRowsOf(rows, token) ==
    {i \in 1..Len(rows) : verify_password(token, rows[i].token_hash)}

\* C35: revoke_all_for_user(u) revokes exactly the not-yet-revoked refresh
\* tokens of user u and returns their count; afterwards validate fails for
\* every token of u, and every row of another user is unchanged and its token
\* validates as it did before.
C35_RevokeAllRevokesOnlyTheUsersTokens ==
    \A u \in Users :
        /\ ENABLED RevokeAllSessions(u)
        /\ ~ENABLED (/\ RevokeAllSessions(u)
                     /\ LET mine == {i \in 1..Len(refresh_tokens) :
                                        /\ refresh_tokens[i].user_id = u
                                        /\ refresh_tokens[i].revoked_at = NoTtl}
                        IN ~(/\ out'.count = Cardinality(mine)
                             /\ Len(refresh_tokens') = Len(refresh_tokens)
                             /\ \A i \in 1..Len(refresh_tokens) :
                                   IF i \in mine
                                   THEN /\ refresh_tokens'[i].revoked_at # NoTtl
                                        /\ refresh_tokens'[i].user_id = u
                                   ELSE refresh_tokens'[i] = refresh_tokens[i]
                             /\ \A token \in 1..MaxSessions :
                                   \A i \in SessionRowsOf(refresh_tokens, token) :
                                       IF refresh_tokens[i].user_id = u
                                       THEN validate(refresh_tokens', token, clock') = 0
                                       ELSE validate(refresh_tokens', token, clock')
                                              = validate(refresh_tokens, token, clock)))

\* user 1 held two sessions and user 2 one; revoke_all_for_user(1) has just
\* answered with count 2, and the token of user 2 still validates
C35_Witness ==
    /\ out.ep = "revoke" /\ out.user_id = 1 /\ out.count = 2
    /\ Len(refresh_tokens) = 3
    /\ \A i \in 1..3 :
          refresh_tokens[i].user_id = 1 <=> refresh_tokens[i].revoked_at # NoTtl
    /\ \E token \in 1..3 :
          /\ validate(refresh_tokens, token, clock) # 0
          /\ refresh_tokens[validate(refresh_tokens, token, clock)].user_id = 2

\* the exchanges of code k by the client it was issued to, authenticated, at
\* the code's redirect URI, with any verifier
ExchangesByOwner(k) ==
    {req \in TokenRequests :
        /\ req.grant_type = "authorization_code"
        /\ req.code = k
        /\ req.client_id = codes[k].client_id
        /\ req.client_secret = ClientSecretOf[req.client_id]
        /\ req.redirect_uri = codes[k].redirect_uri
        /\ req.code_verifier # VerifierEmpty}

\* C36: the code is marked used before PKCE is verified: once an exchange by
\* the right client at the right redirect_uri was answered 400 for a wrong
\* code_verifier, the code is used, and every further exchange of it, with the
\* correct verifier too, is answered with the invalid-code error.
C36_CodeUsedBeforePkceVerified ==
    (Quiet /\ out.ep = "token" /\ out.status = 400 /\ out.detail = PkceFailedDetail) =>
       /\ codes[out.code].is_used
       /\ redeems[out.code] = 0
       /\ \A req \in ExchangesByOwner(out.code) :
             /\ ENABLED TokenRequest(Worker, req)
             /\ ~ENABLED (/\ TokenRequest(Worker, req)
                          /\ ~(/\ out'.status = 400
                                /\ out'.detail = InvalidCodeDetail
                                /\ pc' = pc))

\* an exchange of an unexpired S256 code whose challenge is that of Verifier1
\* has just failed PKCE verification
C36_Witness ==
    /\ Quiet
    /\ out.ep = "token" /\ out.status = 400 /\ out.detail = PkceFailedDetail
    /\ codes[out.code].expires_at > clock
    /\ codes[out.code].code_challenge_method = "S256"
    /\ codes[out.code].code_challenge = Challenge1
    /\ Verifier1 \in {req.code_verifier : req \in ExchangesByOwner(out.code)}

\* C37: a token request that fails before or at the code lookup (client
\* authentication, a missing parameter, another client, another redirect_uri,
\* an expired code) changes no code row, and the lookup of an unused,
\* unexpired code never fails for the client it was issued to at its redirect
\* URI, whatever requests failed before.
C37_FailedLookupLeavesCodeRedeemable ==
    Quiet =>
       /\ \A req \in TokenRequests :
             ~ENABLED (/\ TokenRequest(Worker, req)
                       /\ pc' = pc
                       /\ out'.status # 200
                       /\ codes' # codes)
       /\ \A k \in 1..Len(codes) :
             (~codes[k].is_used /\ codes[k].expires_at > clock) =>
                \A req \in ExchangesByOwner(k) :
                    ~ENABLED (TokenRequest(Worker, req) /\ pc' = pc)

\* a token request has just failed at or before the lookup of an unused,
\* unexpired code, which its client can go on to redeem
C37_Witness ==
    /\ Quiet
    /\ out.ep = "token"
    /\ out.status = 400 /\ out.detail = InvalidCodeDetail
    /\ out.code \in 1..Len(codes)
    /\ ~codes[out.code].is_used
    /\ codes[out.code].expires_at > clock
    /\ redeems[out.code] = 0
    /\ \E req \in ExchangesByOwner(out.code) : ENABLED TokenRequest(Worker, req)

\* a token request naming a code has just failed client authentication or
\* lacked a parameter while a code was unused and unexpired
FailedBeforeLookupWithCodeUnused ==
    /\ Quiet
    /\ out.ep = "token" /\ out.status = 401
    /\ \E k \in 1..Len(codes) : ~codes[k].is_used /\ codes[k].expires_at > clock

\* the (user, client, scope) triple of a code or refresh token row
Triple(row) == <<row.user_id, row.client_id, row.scope>>

UsedCodeTriples ==
    {Triple(codes[k]) : k \in {n \in 1..Len(codes) : codes[n].is_used}}

\* C38: every stored refresh token and every access token issued traces back
\* to an approved consent: its (user, client, scope) triple is that of a code
\* marked used; a code is only ever created by a consent POST with
\* approve=true, with the triple and the redirect_uri of the pending
\* authorization that POST consumed, whose scope tokens are among the client's
\* registered scopes and whose redirect_uri is registered for the client; and
\* a code keeps its triple and redirect_uri.
C38_TokensTraceBackToConsent ==
    /\ [](\A t \in 1..Len(rtokens) : Triple(rtokens[t]) \in UsedCodeTriples)
    /\ []((out.ep = "token" /\ out.status = 200) =>
             <<out.access_token.sub, out.access_token.client_id, out.access_token.scope>>
                \in UsedCodeTriples)
    /\ [][Len(codes') > Len(codes) =>
             \E p \in Procs :
                 /\ AnswersConsent(p)
                 /\ loc[p].form.approve
                 /\ Len(codes') = Len(codes) + 1
                 /\ LET row == codes'[Len(codes')]
                        data == loc[p].data
                    IN /\ Triple(row) = <<data.user_id, data.client_id, data.scope>>
                       /\ row.redirect_uri = data.redirect_uri
                       /\ data.user_id \in Users
                       /\ \E i \in get_by_client_id(data.client_id) :
                             /\ SplitScope(data.scope) \subseteq clients[i].allowed_scopes
                             /\ data.redirect_uri \in clients[i].redirect_uris]_vars
    /\ [][\A k \in 1..Len(codes) :
             /\ Triple(codes'[k]) = Triple(codes[k])
             /\ codes'[k].redirect_uri = codes[k].redirect_uri]_vars

\* a refresh grant has just issued an access token from a refresh token that
\* the exchange of a consented code created
C38_Witness ==
    /\ out.ep = "token" /\ out.status = 200 /\ out.grant_type = "refresh_token"
    /\ out.access_token.sub \in Users
    /\ Len(codes) >= 1 /\ codes[1].is_used /\ codes[1].user_id = out.access_token.sub
    /\ Len(rtokens) >= 1 /\ Triple(rtokens[1]) = Triple(codes[1])

====
